---- MODULE Spec2Model ----
(***************************************************************************)
(* Career Co-Pilot: the recommendation-and-plan-generation pipeline.       *)
(*                                                                         *)
(* Two variants of the backend live in the repository:                     *)
(*   "express"   the Express app of functions/index.js (POST /api/recommend *)
(*               with calculateTop3Roles, generateExplanation,             *)
(*               generateLearningPlan and deterministicFallbackPlan);      *)
(*   "functions" the Cloud Function with AIService / handleRecommendations *)
(*               and the fallbackPlan module (deterministicPlanForRole).   *)
(*                                                                         *)
(* A JavaScript string is a sequence of one-character strings, so that     *)
(* toLowerCase, trim, includes, join and length are computed, not assumed. *)
(***************************************************************************)
EXTENDS Integers, Sequences, FiniteSets, TLC

VARIABLES
  variant,          \* which backend serves the request: "express" | "functions"
  apiKey,           \* is a Gemini API key configured
  token,            \* the request's credential: "valid" | "missing" | "invalid"
  catalog,          \* roles.json: the static role catalog (express)
  rawProfile,       \* req.body.profile
  profile,          \* the sanitized profile
  pc,               \* position of the request handler
  topRoles,         \* result of calculateTop3Roles
  idx,              \* index in topRoles of the role being processed
  why,              \* explanation obtained for the role being processed
  attempt,          \* callGeminiWithRetry: number of the try in progress
  planJson,         \* AIService: result of the last attemptParseResponse
  recommendations,  \* the recommendations assembled so far
  status,           \* HTTP status of the response (0: none yet)
  error,            \* the error the response body reports ("none": no error)
  stored,           \* the documents this request has written to Firestore
  written,          \* the content of the recommendation document it has written
  calls,            \* history: the backend calls made for the role in progress, in order
  delays,           \* history: number of backoff waits between backend calls
  paths,            \* history: per emitted recommendation, how its plan was obtained
                    \*   and how its explanation call ended
  fn,               \* unit harness: the function called
  args,             \* unit harness: its arguments
  ret,              \* unit harness: its result
  previous          \* history: what the previous, identical request was answered

response == <<status, error, stored, written>>
handlerVars == <<variant, apiKey, token, catalog, rawProfile, profile, pc, topRoles,
                 idx, why, attempt, planJson, recommendations, response, calls, delays,
                 paths, previous>>
unitVars == <<fn, args, ret>>
vars == <<variant, apiKey, token, catalog, rawProfile, profile, pc, topRoles,
          idx, why, attempt, planJson, recommendations, status, error, stored, written,
          calls,
          delays, paths, fn, args, ret, previous>>

-----------------------------------------------------------------------------
(* JavaScript strings and arrays *)

Rep(c, n) == [i \in 1..n |-> c]

Min(S) == CHOOSE x \in S : \A y \in S : x <= y
Max(S) == CHOOSE x \in S : \A y \in S : x >= y

UpperToLower ==
  [c \in {"A","B","C","D","E","F","G","H","I","J","K","L","M","N","O","P","Q","R","S","T","U","V","W","X","Y","Z"} |->
    CASE c = "A" -> "a" [] c = "B" -> "b" [] c = "C" -> "c" [] c = "D" -> "d"
      [] c = "E" -> "e" [] c = "F" -> "f" [] c = "G" -> "g" [] c = "H" -> "h"
      [] c = "I" -> "i" [] c = "J" -> "j" [] c = "K" -> "k" [] c = "L" -> "l"
      [] c = "M" -> "m" [] c = "N" -> "n" [] c = "O" -> "o" [] c = "P" -> "p"
      [] c = "Q" -> "q" [] c = "R" -> "r" [] c = "S" -> "s" [] c = "T" -> "t"
      [] c = "U" -> "u" [] c = "V" -> "v" [] c = "W" -> "w" [] c = "X" -> "x"
      [] c = "Y" -> "y" [] c = "Z" -> "z"]

LowerAlnum == {"a","b","c","d","e","f","g","h","i","j","k","l","m","n","o","p","q","r","s","t","u","v","w","x","y","z",
               "0","1","2","3","4","5","6","7","8","9"}

IsSpace(c) == c \in {" ", "\t", "\n"}

\* String.prototype.toLowerCase
toLowerCase(s) == [i \in 1..Len(s) |-> IF s[i] \in DOMAIN UpperToLower THEN UpperToLower[s[i]] ELSE s[i]]

\* String.prototype.trim
RECURSIVE trimStart(_)
trimStart(s) == IF Len(s) > 0 /\ IsSpace(s[1]) THEN trimStart(Tail(s)) ELSE s
RECURSIVE trimEnd(_)
trimEnd(s) == IF Len(s) > 0 /\ IsSpace(s[Len(s)]) THEN trimEnd(SubSeq(s, 1, Len(s) - 1)) ELSE s
trim(s) == trimEnd(trimStart(s))

\* String.prototype.includes
includes(s, sub) == \E i \in 0..(Len(s) - Len(sub)) : SubSeq(s, i + 1, i + Len(sub)) = sub

\* Array.prototype.slice(0, n)
slice(a, n) == SubSeq(a, 1, IF Len(a) < n THEN Len(a) ELSE n)

\* Array.prototype.join
RECURSIVE join(_, _)
join(a, sep) ==
  IF Len(a) = 0 THEN <<>>
  ELSE IF Len(a) = 1 THEN a[1]
  ELSE a[1] \o sep \o join(Tail(a), sep)

\* template-literal conversion of a non-negative integer
RECURSIVE NumToString(_)
NumToString(n) ==
  LET d == <<"0","1","2","3","4","5","6","7","8","9">>
  IN  IF n < 10 THEN <<d[n + 1]>> ELSE NumToString(n \div 10) \o <<d[(n % 10) + 1]>>

\* an optional argument: present with a value, or undefined
Some(v) == [some |-> TRUE, v |-> v]
Undefined == [some |-> FALSE, v |-> <<>>]

-----------------------------------------------------------------------------
(* fallbackPlan module: deterministicPlanForRole *)

BaseTopicKeys ==
  << <<"f","r","o","n","t","e","n","d","_","d","e","v","e","l","o","p","e","r">>, <<"d","a","t","a","_","a","n","a","l","y","s","t">>, <<"u","i","u","x","_","d","e","s","i","g","n","e","r">>, <<"b","a","c","k","e","n","d","_","d","e","v","e","l","o","p","e","r">>,
     <<"m","o","b","i","l","e","_","d","e","v","e","l","o","p","e","r">>, <<"p","r","o","d","u","c","t","_","m","a","n","a","g","e","r">>, <<"c","y","b","e","r","s","e","c","u","r","i","t","y","_","a","n","a","l","y","s","t">>, <<"c","l","o","u","d","_","e","n","g","i","n","e","e","r">>,
     <<"m","a","c","h","i","n","e","_","l","e","a","r","n","i","n","g","_","e","n","g","i","n","e","e","r">>, <<"d","e","v","o","p","s","_","e","n","g","i","n","e","e","r">> >>

\* a table without the generic template: every title gets the same four rows
baseTopicsNoGeneric(key) ==
  [i \in 1..4 |-> <<<<"T","o","p","i","c"," ">> \o NumToString(i), <<"P","r","a","c","t","i","c","e"," ">> \o NumToString(i)>>]

baseTopics(key) ==
  CASE key = <<"f","r","o","n","t","e","n","d","_","d","e","v","e","l","o","p","e","r">> ->
         << <<<<"R","e","a","c","t"," ","F","u","n","d","a","m","e","n","t","a","l","s">>, <<"B","u","i","l","d"," ","a"," ","s","i","m","p","l","e"," ","t","o","d","o"," ","a","p","p">>>>,
            <<<<"S","t","a","t","e"," ","M","a","n","a","g","e","m","e","n","t"," ","&"," ","H","o","o","k","s">>, <<"C","r","e","a","t","e"," ","a"," ","s","h","o","p","p","i","n","g"," ","c","a","r","t"," ","c","o","m","p","o","n","e","n","t">>>>,
            <<<<"R","o","u","t","i","n","g"," ","&"," ","A","P","I"," ","I","n","t","e","g","r","a","t","i","o","n">>, <<"B","u","i","l","d"," ","a"," ","w","e","a","t","h","e","r"," ","a","p","p"," ","w","i","t","h"," ","A","P","I">>>>,
            <<<<"T","e","s","t","i","n","g"," ","&"," ","D","e","p","l","o","y","m","e","n","t">>, <<"D","e","p","l","o","y"," ","y","o","u","r"," ","a","p","p"," ","t","o"," ","V","e","r","c","e","l">>>> >>
    [] key = <<"d","a","t","a","_","a","n","a","l","y","s","t">> ->
         << <<<<"S","Q","L"," ","b","a","s","i","c","s"," ","&"," ","J","o","i","n","s">>, <<"A","n","a","l","y","z","e"," ","s","a","m","p","l","e"," ","d","a","t","a","s","e","t">>>>,
            <<<<"E","x","c","e","l"," ","&"," ","P","i","v","o","t"," ","t","a","b","l","e","s">>, <<"D","a","t","a"," ","c","l","e","a","n","i","n","g"," ","e","x","e","r","c","i","s","e">>>>,
            <<<<"D","a","t","a"," ","v","i","s","u","a","l","i","z","a","t","i","o","n"," ","b","a","s","i","c","s">>, <<"C","r","e","a","t","e"," ","c","h","a","r","t","s"," ","a","n","d"," ","d","a","s","h","b","o","a","r","d">>>>,
            <<<<"C","a","p","s","t","o","n","e",":"," ","C","o","m","p","l","e","t","e"," ","a","n","a","l","y","s","i","s">>, <<"P","r","e","s","e","n","t"," ","f","i","n","d","i","n","g","s"," ","r","e","p","o","r","t">>>> >>
    [] key = <<"u","i","u","x","_","d","e","s","i","g","n","e","r">> ->
         << <<<<"D","e","s","i","g","n"," ","b","a","s","i","c","s"," ","&"," ","F","i","g","m","a"," ","i","n","t","r","o">>, <<"R","e","d","e","s","i","g","n"," ","a"," ","s","i","m","p","l","e"," ","p","a","g","e">>>>,
            <<<<"W","i","r","e","f","r","a","m","e","s"," ","&"," ","u","s","e","r"," ","f","l","o","w","s">>, <<"C","r","e","a","t","e"," ","2"," ","w","i","r","e","f","r","a","m","e","s">>>>,
            <<<<"P","r","o","t","o","t","y","p","i","n","g"," ","&"," ","u","s","a","b","i","l","i","t","y"," ","t","e","s","t","i","n","g">>, <<"R","u","n"," ","q","u","i","c","k"," ","u","s","a","b","i","l","i","t","y"," ","t","e","s","t">>>>,
            <<<<"C","a","p","s","t","o","n","e",":"," ","P","r","o","t","o","t","y","p","e"," ","a","n"," ","a","p","p"," ","p","a","g","e">>, <<"U","s","a","b","i","l","i","t","y"," ","r","e","p","o","r","t">>>> >>
    [] key = <<"b","a","c","k","e","n","d","_","d","e","v","e","l","o","p","e","r">> ->
         << <<<<"N","o","d","e",".","j","s"," ","&"," ","E","x","p","r","e","s","s"," ","b","a","s","i","c","s">>, <<"B","u","i","l","d"," ","a"," ","s","i","m","p","l","e"," ","A","P","I">>>>,
            <<<<"D","a","t","a","b","a","s","e"," ","i","n","t","e","g","r","a","t","i","o","n">>, <<"C","o","n","n","e","c","t"," ","t","o"," ","M","o","n","g","o","D","B">>>>,
            <<<<"A","u","t","h","e","n","t","i","c","a","t","i","o","n"," ","&"," ","S","e","c","u","r","i","t","y">>, <<"A","d","d"," ","J","W","T"," ","a","u","t","h","e","n","t","i","c","a","t","i","o","n">>>>,
            <<<<"D","e","p","l","o","y","m","e","n","t"," ","&"," ","T","e","s","t","i","n","g">>, <<"D","e","p","l","o","y"," ","t","o"," ","c","l","o","u","d"," ","p","l","a","t","f","o","r","m">>>> >>
    [] key = <<"m","o","b","i","l","e","_","d","e","v","e","l","o","p","e","r">> ->
         << <<<<"R","e","a","c","t"," ","N","a","t","i","v","e"," ","b","a","s","i","c","s">>, <<"B","u","i","l","d"," ","a"," ","s","i","m","p","l","e"," ","m","o","b","i","l","e"," ","a","p","p">>>>,
            <<<<"N","a","v","i","g","a","t","i","o","n"," ","&"," ","S","t","a","t","e">>, <<"A","d","d"," ","n","a","v","i","g","a","t","i","o","n"," ","b","e","t","w","e","e","n"," ","s","c","r","e","e","n","s">>>>,
            <<<<"A","P","I"," ","I","n","t","e","g","r","a","t","i","o","n">>, <<"C","o","n","n","e","c","t"," ","t","o"," ","b","a","c","k","e","n","d"," ","s","e","r","v","i","c","e","s">>>>,
            <<<<"T","e","s","t","i","n","g"," ","&"," ","P","u","b","l","i","s","h","i","n","g">>, <<"T","e","s","t"," ","o","n"," ","d","e","v","i","c","e"," ","a","n","d"," ","p","u","b","l","i","s","h">>>> >>
    [] key = <<"p","r","o","d","u","c","t","_","m","a","n","a","g","e","r">> ->
         << <<<<"P","r","o","d","u","c","t"," ","S","t","r","a","t","e","g","y"," ","&"," ","M","a","r","k","e","t"," ","R","e","s","e","a","r","c","h">>, <<"C","r","e","a","t","e"," ","u","s","e","r"," ","p","e","r","s","o","n","a","s">>>>,
            <<<<"U","s","e","r"," ","R","e","s","e","a","r","c","h"," ","&"," ","I","n","t","e","r","v","i","e","w","s">>, <<"C","o","n","d","u","c","t"," ","u","s","e","r"," ","i","n","t","e","r","v","i","e","w","s">>>>,
            <<<<"A","g","i","l","e"," ","M","e","t","h","o","d","o","l","o","g","y">>, <<"C","r","e","a","t","e"," ","p","r","o","d","u","c","t"," ","b","a","c","k","l","o","g">>>>,
            <<<<"M","e","t","r","i","c","s"," ","&"," ","A","n","a","l","y","t","i","c","s">>, <<"D","e","s","i","g","n"," ","p","r","o","d","u","c","t"," ","m","e","t","r","i","c","s">>>> >>
    [] key = <<"c","y","b","e","r","s","e","c","u","r","i","t","y","_","a","n","a","l","y","s","t">> ->
         << <<<<"S","e","c","u","r","i","t","y"," ","F","u","n","d","a","m","e","n","t","a","l","s">>, <<"A","n","a","l","y","z","e"," ","s","e","c","u","r","i","t","y"," ","v","u","l","n","e","r","a","b","i","l","i","t","i","e","s">>>>,
            <<<<"N","e","t","w","o","r","k"," ","S","e","c","u","r","i","t","y">>, <<"C","o","n","f","i","g","u","r","e"," ","f","i","r","e","w","a","l","l"," ","r","u","l","e","s">>>>,
            <<<<"I","n","c","i","d","e","n","t"," ","R","e","s","p","o","n","s","e">>, <<"S","i","m","u","l","a","t","e"," ","s","e","c","u","r","i","t","y"," ","i","n","c","i","d","e","n","t">>>>,
            <<<<"C","o","m","p","l","i","a","n","c","e"," ","&"," ","R","e","p","o","r","t","i","n","g">>, <<"C","r","e","a","t","e"," ","s","e","c","u","r","i","t","y"," ","r","e","p","o","r","t">>>> >>
    [] key = <<"c","l","o","u","d","_","e","n","g","i","n","e","e","r">> ->
         << <<<<"A","W","S","/","C","l","o","u","d"," ","b","a","s","i","c","s">>, <<"D","e","p","l","o","y"," ","a"," ","s","i","m","p","l","e"," ","a","p","p","l","i","c","a","t","i","o","n">>>>,
            <<<<"I","n","f","r","a","s","t","r","u","c","t","u","r","e"," ","a","s"," ","C","o","d","e">>, <<"C","r","e","a","t","e"," ","T","e","r","r","a","f","o","r","m"," ","t","e","m","p","l","a","t","e","s">>>>,
            <<<<"M","o","n","i","t","o","r","i","n","g"," ","&"," ","L","o","g","g","i","n","g">>, <<"S","e","t"," ","u","p"," ","m","o","n","i","t","o","r","i","n","g"," ","d","a","s","h","b","o","a","r","d">>>>,
            <<<<"D","e","v","O","p","s"," ","&"," ","C","I","/","C","D">>, <<"C","r","e","a","t","e"," ","d","e","p","l","o","y","m","e","n","t"," ","p","i","p","e","l","i","n","e">>>> >>
    [] key = <<"m","a","c","h","i","n","e","_","l","e","a","r","n","i","n","g","_","e","n","g","i","n","e","e","r">> ->
         << <<<<"P","y","t","h","o","n"," ","&"," ","D","a","t","a"," ","S","c","i","e","n","c","e">>, <<"C","l","e","a","n"," ","a","n","d"," ","a","n","a","l","y","z","e"," ","d","a","t","a","s","e","t">>>>,
            <<<<"M","L"," ","A","l","g","o","r","i","t","h","m","s">>, <<"B","u","i","l","d"," ","a"," ","s","i","m","p","l","e"," ","M","L"," ","m","o","d","e","l">>>>,
            <<<<"M","o","d","e","l"," ","T","r","a","i","n","i","n","g"," ","&"," ","E","v","a","l","u","a","t","i","o","n">>, <<"T","r","a","i","n"," ","a","n","d"," ","t","e","s","t"," ","m","o","d","e","l">>>>,
            <<<<"D","e","p","l","o","y","m","e","n","t"," ","&"," ","P","r","o","d","u","c","t","i","o","n">>, <<"D","e","p","l","o","y"," ","m","o","d","e","l"," ","t","o"," ","p","r","o","d","u","c","t","i","o","n">>>> >>
    [] key = <<"d","e","v","o","p","s","_","e","n","g","i","n","e","e","r">> ->
         << <<<<"D","o","c","k","e","r"," ","&"," ","C","o","n","t","a","i","n","e","r","s">>, <<"C","o","n","t","a","i","n","e","r","i","z","e"," ","a","n"," ","a","p","p","l","i","c","a","t","i","o","n">>>>,
            <<<<"K","u","b","e","r","n","e","t","e","s"," ","&"," ","O","r","c","h","e","s","t","r","a","t","i","o","n">>, <<"D","e","p","l","o","y"," ","t","o"," ","K","u","b","e","r","n","e","t","e","s">>>>,
            <<<<"C","I","/","C","D"," ","P","i","p","e","l","i","n","e","s">>, <<"C","r","e","a","t","e"," ","a","u","t","o","m","a","t","e","d"," ","p","i","p","e","l","i","n","e">>>>,
            <<<<"M","o","n","i","t","o","r","i","n","g"," ","&"," ","A","l","e","r","t","i","n","g">>, <<"S","e","t"," ","u","p"," ","m","o","n","i","t","o","r","i","n","g"," ","s","y","s","t","e","m">>>> >>
    [] OTHER ->
         << <<<<"C","o","r","e"," ","c","o","n","c","e","p","t"," ","1">>, <<"H","a","n","d","s","-","o","n"," ","p","r","a","c","t","i","c","e"," ","1">>>>,
            <<<<"C","o","r","e"," ","c","o","n","c","e","p","t"," ","2">>, <<"H","a","n","d","s","-","o","n"," ","p","r","a","c","t","i","c","e"," ","2">>>>,
            <<<<"C","o","r","e"," ","c","o","n","c","e","p","t"," ","3">>, <<"H","a","n","d","s","-","o","n"," ","p","r","a","c","t","i","c","e"," ","3">>>>,
            <<<<"C","a","p","s","t","o","n","e"," ","p","r","o","j","e","c","t">>, <<"F","i","n","a","l"," ","d","e","l","i","v","e","r","a","b","l","e">>>> >>

\* .replace(/_+/g, '_'): an underscore following an underscore is dropped
CollapseUnderscores(s) ==
  LET marked == [i \in 1..Len(s) |->
                   [c |-> s[i], keep |-> ~(s[i] = "_" /\ i > 1 /\ s[i - 1] = "_")]]
      kept == SelectSeq(marked, LAMBDA m : m.keep)
  IN  [i \in 1..Len(kept) |-> kept[i].c]

\* roleTitle.toLowerCase().replace(/[^a-z0-9]/g, '_').replace(/_+/g, '_')
normalizedRoleOf(roleTitle) ==
  LET low == toLowerCase(roleTitle)
  IN  CollapseUnderscores([i \in 1..Len(low) |-> IF low[i] \in LowerAlnum THEN low[i] ELSE "_"])

\* the key chosen for a role title; <<>> when none matches (roleKey undefined)
roleKeyOf(roleTitle) ==
  LET n == normalizedRoleOf(roleTitle)
      hit == {k \in 1..Len(BaseTopicKeys) :
                includes(n, BaseTopicKeys[k]) \/ includes(BaseTopicKeys[k], n)}
  IN  IF hit # {} THEN BaseTopicKeys[Min(hit)]
      ELSE IF includes(n, <<"f","r","o","n","t","e","n","d">>) \/ includes(n, <<"r","e","a","c","t">>) THEN <<"f","r","o","n","t","e","n","d","_","d","e","v","e","l","o","p","e","r">>
      ELSE IF includes(n, <<"d","a","t","a">>) \/ includes(n, <<"a","n","a","l","y","s","t">>) THEN <<"d","a","t","a","_","a","n","a","l","y","s","t">>
      ELSE IF includes(n, <<"u","i">>) \/ includes(n, <<"u","x">>) \/ includes(n, <<"d","e","s","i","g","n">>) THEN <<"u","i","u","x","_","d","e","s","i","g","n","e","r">>
      ELSE IF includes(n, <<"b","a","c","k","e","n","d">>) \/ includes(n, <<"a","p","i">>) THEN <<"b","a","c","k","e","n","d","_","d","e","v","e","l","o","p","e","r">>
      ELSE IF includes(n, <<"m","o","b","i","l","e">>) \/ includes(n, <<"a","p","p">>) THEN <<"m","o","b","i","l","e","_","d","e","v","e","l","o","p","e","r">>
      ELSE IF includes(n, <<"p","r","o","d","u","c","t">>) \/ includes(n, <<"m","a","n","a","g","e","r">>) THEN <<"p","r","o","d","u","c","t","_","m","a","n","a","g","e","r">>
      ELSE IF includes(n, <<"s","e","c","u","r","i","t","y">>) \/ includes(n, <<"c","y","b","e","r">>) THEN <<"c","y","b","e","r","s","e","c","u","r","i","t","y","_","a","n","a","l","y","s","t">>
      ELSE IF includes(n, <<"c","l","o","u","d">>) \/ includes(n, <<"a","w","s">>) THEN <<"c","l","o","u","d","_","e","n","g","i","n","e","e","r">>
      ELSE IF includes(n, <<"m","a","c","h","i","n","e">>) \/ includes(n, <<"m","l">>) \/ includes(n, <<"a","i">>) THEN <<"m","a","c","h","i","n","e","_","l","e","a","r","n","i","n","g","_","e","n","g","i","n","e","e","r">>
      ELSE IF includes(n, <<"d","e","v","o","p","s">>) \/ includes(n, <<"d","e","p","l","o","y","m","e","n","t">>) THEN <<"d","e","v","o","p","s","_","e","n","g","i","n","e","e","r">>
      ELSE <<>>

deterministicPlanForRole(roleTitle, gapSkills, prof) ==
  LET defaultTopics == baseTopics(roleKeyOf(roleTitle))
  IN  [weeks |-> [i \in 1..Len(defaultTopics) |->
        [week |-> i,
         topics |-> <<defaultTopics[i][1]>>,
         practice |-> <<defaultTopics[i][2]>>,
         assessment |-> <<"S","h","o","r","t"," ","c","h","e","c","k","l","i","s","t"," ","a","n","d"," ","5"," ","q","u","i","c","k"," ","q","u","i","z"," ","q","u","e","s","t","i","o","n","s"," ","f","o","r"," ","w","e","e","k"," ">> \o NumToString(i),
         project |-> IF i = 4 THEN <<"C","a","p","s","t","o","n","e"," ","p","r","o","j","e","c","t"," ","f","o","r"," ">> \o roleTitle
                     ELSE <<"M","i","n","i"," ","p","r","o","j","e","c","t"," ","f","o","r"," ","w","e","e","k"," ">> \o NumToString(i)]]]

buildDeterministicWhy(roleTitle, overlapSkills, gapSkills) ==
  LET overlap == IF Len(overlapSkills) # 0 THEN join(slice(overlapSkills, 4), <<","," ">>)
                 ELSE <<"f","o","u","n","d","a","t","i","o","n","a","l"," ","s","k","i","l","l","s">>
      gaps == IF Len(gapSkills) # 0 THEN join(slice(gapSkills, 3), <<","," ">>)
              ELSE <<"n","o"," ","c","r","i","t","i","c","a","l"," ","g","a","p","s">>
  IN  <<"Y","o","u"," ","m","a","t","c","h"," ">> \o roleTitle \o <<" ","t","h","a","n","k","s"," ","t","o"," ">> \o overlap
        \o <<"."," ","T","o"," ","i","m","p","r","o","v","e"," ","f","i","t",","," ","w","o","r","k"," ","o","n"," ">> \o gaps \o <<".">>

-----------------------------------------------------------------------------
(* index.js: deterministicFallbackPlan *)

deterministicFallbackPlan(prof, gapSkills, roleTitle) ==
  LET topGaps == slice(IF gapSkills.some THEN gapSkills.v ELSE <<>>, 6)
      n == Len(topGaps)
      \* topGaps[j] for a 0-based j: "undefined" once interpolated when out of range
      at(j) == IF j < n THEN topGaps[j + 1] ELSE <<"u","n","d","e","f","i","n","e","d">>
  IN  [weeks |-> [w \in 1..4 |->
        LET i == w - 1 IN
        [week |-> w,
         topics |-> << IF i = 0 THEN <<"F","o","u","n","d","a","t","i","o","n","s"," ","o","f"," ">> \o roleTitle
                       ELSE <<"D","e","e","p"," ","d","i","v","e",":"," ">> \o at(i % (IF n > 1 THEN n ELSE 1)),
                       IF i < n THEN <<"C","o","n","c","e","p","t","s",":"," ">> \o topGaps[i + 1]
                       ELSE <<"P","r","a","c","t","i","c","e"," ","&"," ","r","e","v","i","e","w">> >>,
         practice |-> << <<"H","a","n","d","s","-","o","n"," ","e","x","e","r","c","i","s","e","s"," ","(","f","r","e","e"," ","t","u","t","o","r","i","a","l","s",","," ","o","f","f","i","c","i","a","l"," ","d","o","c","s",")">>,
                         <<"I","m","p","l","e","m","e","n","t"," ","s","m","a","l","l"," ","f","e","a","t","u","r","e","s"," ","o","r"," ","s","c","r","i","p","t","s">> >>,
         assessment |-> <<"S","e","l","f","-","c","h","e","c","k"," ","w","i","t","h"," ","q","u","i","z","z","e","s"," ","o","r"," ","c","o","d","i","n","g"," ","c","h","a","l","l","e","n","g","e","s">>,
         project |-> IF i = 3 THEN <<"C","a","p","s","t","o","n","e",":"," ","B","u","i","l","d"," ","a"," ","s","m","a","l","l"," ">> \o roleTitle \o <<" ","p","o","r","t","f","o","l","i","o"," ","p","i","e","c","e">>
                     ELSE <<"M","i","n","i"," ","p","r","o","j","e","c","t"," ","a","p","p","l","y","i","n","g"," ","w","e","e","k","l","y"," ","t","o","p","i","c","s">>]]]

-----------------------------------------------------------------------------
(* schema.js (zod) *)

WeekSchema(w) ==
  /\ w.week \in Int /\ w.week >= 1 /\ w.week <= 4
  /\ Len(w.topics) >= 1 /\ Len(w.topics) <= 10
  /\ Len(w.practice) >= 1 /\ Len(w.practice) <= 8
  /\ Len(w.assessment) >= 3 /\ Len(w.assessment) <= 200
  /\ Len(w.project) >= 3 /\ Len(w.project) <= 200

PlanSchema(plan) ==
  /\ Len(plan.weeks) = 4
  /\ \A i \in 1..Len(plan.weeks) : WeekSchema(plan.weeks[i])

RecommendationItemSchema(rec) ==
  /\ Len(rec.roleId) >= 1 /\ Len(rec.roleId) <= 50
  /\ Len(rec.title) >= 1 /\ Len(rec.title) <= 100
  /\ rec.fitScore >= 0 /\ rec.fitScore <= 100
  /\ Len(rec.why) >= 10 /\ Len(rec.why) <= 600
  /\ Len(rec.overlapSkills) <= 20
  /\ Len(rec.gapSkills) <= 20
  /\ PlanSchema(rec.plan)

RecommendationResponseSchema(recs) ==
  /\ Len(recs) = 3
  /\ \A i \in 1..Len(recs) : RecommendationItemSchema(recs[i])

\* of the profile only skills and weeklyTime are modelled; the other fields
\* (name, education, interests, budget, language) are taken to be well-formed
UserProfileSchema(p) ==
  /\ Len(p.skills) >= 1 /\ Len(p.skills) <= 50
  /\ p.weeklyTime >= 1 /\ p.weeklyTime <= 30

-----------------------------------------------------------------------------
(* validation.js *)

validateWeek(week) ==
  /\ week.week >= 1 /\ week.week <= 4
  /\ Len(week.topics) # 0
  /\ \A i \in 1..Len(week.topics) : Len(trim(week.topics[i])) # 0
  /\ Len(week.practice) # 0
  /\ \A i \in 1..Len(week.practice) : Len(trim(week.practice[i])) # 0
  /\ Len(trim(week.assessment)) # 0
  /\ Len(trim(week.project)) # 0

\* a validator that checks the weeks but not how many there are
validateLearningPlanAnyLength(plan) ==
  \A i \in 1..Len(plan.weeks) : validateWeek(plan.weeks[i])

validateLearningPlan(plan) ==
  /\ Len(plan.weeks) = 4
  /\ \A i \in 1..Len(plan.weeks) : validateWeek(plan.weeks[i])

validateRecommendation(rec) ==
  /\ Len(rec.title) # 0 /\ rec.fitScore # 0 /\ Len(rec.why) # 0   \* !rec[field]
  /\ rec.fitScore >= 0 /\ rec.fitScore <= 100
  /\ Len(trim(rec.title)) # 0
  /\ Len(trim(rec.why)) # 0
  /\ validateLearningPlan(rec.plan)

validatePlan(plan) ==
  /\ Len(plan.recommendations) # 0
  /\ Len(plan.recommendations) <= 5
  /\ \A i \in 1..Len(plan.recommendations) : validateRecommendation(plan.recommendations[i])

validateProfile(p) ==
  /\ Len(p.skills) # 0
  /\ \A i \in 1..Len(p.skills) : Len(trim(p.skills[i])) # 0
  /\ p.weeklyTime >= 1 /\ p.weeklyTime <= 40

\* Array.prototype.filter
RECURSIVE filterNonEmpty(_)
filterNonEmpty(a) ==
  IF Len(a) = 0 THEN <<>>
  ELSE IF Len(a[1]) > 0 THEN <<a[1]>> \o filterNonEmpty(Tail(a))
  ELSE filterNonEmpty(Tail(a))

\* validation.js sanitizeProfile (the one the functions variant imports)
sanitizeProfileV(p) ==
  [skills |-> filterNonEmpty([i \in 1..Len(p.skills) |-> trim(p.skills[i])]),
   weeklyTime |-> p.weeklyTime]

-----------------------------------------------------------------------------
(* utils.js *)

synonyms(s) ==
  CASE s = <<"e","x","c","e","l">> -> <<"s","p","r","e","a","d","s","h","e","e","t","s">>
    [] s = <<"s","p","r","e","a","d","s","h","e","e","t","s">> -> <<"e","x","c","e","l">>
    [] s = <<"j","a","v","a","s","c","r","i","p","t">> -> <<"j","s">>
    [] s = <<"j","s">> -> <<"j","a","v","a","s","c","r","i","p","t">>
    [] s = <<"p","y","t","h","o","n">> -> <<"p","y","t","h","o","n">>
    [] s = <<"r","e","a","c","t">> -> <<"r","e","a","c","t">>
    [] s = <<"n","o","d","e">> -> <<"n","o","d","e","j","s">>
    [] s = <<"n","o","d","e","j","s">> -> <<"n","o","d","e">>
    [] s = <<"a","w","s">> -> <<"a","m","a","z","o","n"," ","w","e","b"," ","s","e","r","v","i","c","e","s">>
    [] s = <<"a","m","a","z","o","n"," ","w","e","b"," ","s","e","r","v","i","c","e","s">> -> <<"a","w","s">>
    [] s = <<"m","a","c","h","i","n","e"," ","l","e","a","r","n","i","n","g">> -> <<"m","l">>
    [] s = <<"m","l">> -> <<"m","a","c","h","i","n","e"," ","l","e","a","r","n","i","n","g">>
    [] s = <<"a","r","t","i","f","i","c","i","a","l"," ","i","n","t","e","l","l","i","g","e","n","c","e">> -> <<"a","i">>
    [] s = <<"a","i">> -> <<"a","r","t","i","f","i","c","i","a","l"," ","i","n","t","e","l","l","i","g","e","n","c","e">>
    [] OTHER -> s

\* .filter((s, i, arr) => arr.indexOf(s) === i)
dedupe(a) ==
  LET keep == {i \in 1..Len(a) : \A j \in 1..(i - 1) : a[j] # a[i]}
      RECURSIVE pick(_)
      pick(i) == IF i > Len(a) THEN <<>>
                 ELSE IF i \in keep THEN <<a[i]>> \o pick(i + 1) ELSE pick(i + 1)
  IN  pick(1)

normalizeSkills(skills) ==
  slice(dedupe([i \in 1..Len(skills) |-> synonyms(trim(toLowerCase(skills[i])))]), 50)

sanitizeProfile(p) ==
  [skills |-> normalizeSkills(p.skills),
   weeklyTime |-> LET t == IF p.weeklyTime = 0 THEN 6 ELSE p.weeklyTime
                  IN  IF t < 1 THEN 1 ELSE IF t > 30 THEN 30 ELSE t]

Range(a) == {a[i] : i \in 1..Len(a)}

\* a skill vector: key -> weight.  User weights are in units of 1.0; role
\* weights are in units of 0.5 (cosine is invariant under scaling either vector)
buildUserVector(skills) ==
  [k \in {trim(toLowerCase(s)) : s \in Range(skills)} |-> 1]

\* weight || 1.0; a later entry with the same key overwrites an earlier one
buildRoleVector(role) ==
  LET key(i) == trim(toLowerCase(role.skills[i].name))
      keys == {key(i) : i \in 1..Len(role.skills)}
      last(k) == Max({i \in 1..Len(role.skills) : key(i) = k})
  IN  [k \in keys |-> IF role.skills[last(k)].weight = 0 THEN 2 ELSE role.skills[last(k)].weight]

RECURSIVE SumOver(_, _)
SumOver(S, f) ==
  IF S = {} THEN 0
  ELSE LET x == CHOOSE y \in S : TRUE IN f[x] + SumOver(S \ {x}, f)

\* cosine(a, b) is the real number dot / sqrt(sq), kept exactly as <<dot, sq>>;
\* [dot |-> 0, sq |-> 1] when na = 0 or nb = 0
cosine(a, b) ==
  LET keys == DOMAIN a \cup DOMAIN b
      va == [k \in keys |-> IF k \in DOMAIN a THEN a[k] ELSE 0]
      vb == [k \in keys |-> IF k \in DOMAIN b THEN b[k] ELSE 0]
      dot == SumOver(keys, [k \in keys |-> va[k] * vb[k]])
      na == SumOver(keys, [k \in keys |-> va[k] * va[k]])
      nb == SumOver(keys, [k \in keys |-> vb[k] * vb[k]])
  IN  IF na = 0 \/ nb = 0 THEN [dot |-> 0, sq |-> 1] ELSE [dot |-> dot, sq |-> na * nb]

\* a ratio over the user's skills instead of the role's
overlapRatioOverUser(userSkills, role) ==
  LET userSet == {trim(toLowerCase(s)) : s \in Range(userSkills)}
      roleSet == {trim(toLowerCase(role.skills[i].name)) : i \in 1..Len(role.skills)}
  IN  IF Cardinality(userSet) = 0 THEN [num |-> 0, den |-> 1]
      ELSE [num |-> Cardinality({s \in roleSet : s \in userSet}), den |-> Cardinality(userSet)]

\* overlapRatio is the rational num / den; [num |-> 0, den |-> 1] for a role without skills
overlapRatio(userSkills, role) ==
  LET userSet == {trim(toLowerCase(s)) : s \in Range(userSkills)}
      roleSet == {trim(toLowerCase(role.skills[i].name)) : i \in 1..Len(role.skills)}
  IN  IF Cardinality(roleSet) = 0 THEN [num |-> 0, den |-> 1]
      ELSE [num |-> Cardinality({s \in roleSet : s \in userSet}), den |-> Cardinality(roleSet)]

RECURSIVE partition(_, _, _)
partition(skills, userSkillSet, wantOverlap) ==
  IF Len(skills) = 0 THEN <<>>
  ELSE LET has == toLowerCase(skills[1].name) \in userSkillSet
       IN  (IF has = wantOverlap THEN <<skills[1].name>> ELSE <<>>)
             \o partition(Tail(skills), userSkillSet, wantOverlap)

calculateSkillOverlap(userSkills, role) ==
  LET userSkillSet == {toLowerCase(s) : s \in Range(userSkills)}
  IN  [overlap |-> slice(partition(role.skills, userSkillSet, TRUE), 20),
       gaps |-> slice(partition(role.skills, userSkillSet, FALSE), 20)]

\* Math.round((0.6 * c + 0.4 * o) * 100) in exact arithmetic, for c = dot / sqrt(sq)
\* and o = num / den, both in [0, 1]: the largest s with s - 1/2 <= 60 c + 40 o
roundedPercent(c, o) ==
  LET ok(s) == LET A == (2 * s - 1) * o.den - 80 * o.num
                   B == 120 * o.den * c.dot
               IN  A <= 0 \/ A * A * c.sq <= B * B
  IN  Max({s \in 0..100 : ok(s)})

formatFitScore(cosineValue, overlap) ==
  LET pct == roundedPercent(cosineValue, overlap)
  IN  IF pct > 100 THEN 100 ELSE IF pct < 0 THEN 0 ELSE pct

-----------------------------------------------------------------------------
(* index.js: calculateTop3Roles *)

\* a sort that is not stable: an element goes before the elements that compare equal
RECURSIVE insertDescBeforeEqual(_, _, _)
insertDescBeforeEqual(sorted, keys, x) ==
  IF Len(sorted) = 0 THEN <<x>>
  ELSE IF keys[sorted[1]] <= keys[x] THEN <<x>> \o sorted
  ELSE <<sorted[1]>> \o insertDescBeforeEqual(Tail(sorted), keys, x)

\* Array.prototype.sort with the comparator (a, b) => b.key - a.key, as the
\* order in which it leaves the indices of `keys`.  The sort is stable
\* (ECMAScript 2019): an element goes after the elements that compare equal
RECURSIVE insertDesc(_, _, _)
insertDesc(sorted, keys, x) ==
  IF Len(sorted) = 0 THEN <<x>>
  ELSE IF keys[sorted[1]] < keys[x] THEN <<x>> \o sorted
  ELSE <<sorted[1]>> \o insertDesc(Tail(sorted), keys, x)

RECURSIVE sortDescUpTo(_, _)
sortDescUpTo(keys, n) ==
  IF n = 0 THEN <<>> ELSE insertDesc(sortDescUpTo(keys, n - 1), keys, n)

sortDesc(keys) == sortDescUpTo(keys, Len(keys))

scoreRole(prof, role) ==
  LET o == calculateSkillOverlap(prof.skills, role)
  IN  [role |-> role,
       score |-> formatFitScore(cosine(buildUserVector(prof.skills), buildRoleVector(role)),
                                overlapRatio(prof.skills, role)),
       overlap |-> o.overlap,
       gaps |-> o.gaps]

calculateTop3Roles(prof, roles) ==
  LET scoredRoles == [i \in 1..Len(roles) |-> scoreRole(prof, roles[i])]
      order == sortDesc([i \in 1..Len(roles) |-> scoredRoles[i].score])
  IN  slice([i \in 1..Len(order) |-> scoredRoles[order[i]]], 3)

-----------------------------------------------------------------------------
(* Number: IEEE 754 binary64 arithmetic on non-negative finite values, as
   Math.sqrt, *, /, + and Math.round compute it.  A value is m * 2^e with a
   significand m of exactly 53 bits, or zero; significands and intermediate
   results are natural numbers kept as sequences of 15-bit limbs, lowest
   first, without leading zero limbs. *)

Base == 2^15

RECURSIVE bigNorm(_)
bigNorm(a) ==
  IF Len(a) > 0 /\ a[Len(a)] = 0 THEN bigNorm(SubSeq(a, 1, Len(a) - 1)) ELSE a

RECURSIVE bigOfInt(_)
bigOfInt(n) == IF n = 0 THEN <<>> ELSE <<n % Base>> \o bigOfInt(n \div Base)

RECURSIVE intOfBig(_)
intOfBig(a) == IF Len(a) = 0 THEN 0 ELSE a[1] + Base * intOfBig(Tail(a))

limb(a, i) == IF i <= Len(a) THEN a[i] ELSE 0

RECURSIVE bigAddFrom(_, _, _, _)
bigAddFrom(a, b, i, carry) ==
  IF i > Len(a) /\ i > Len(b) THEN (IF carry = 0 THEN <<>> ELSE <<carry>>)
  ELSE LET s == limb(a, i) + limb(b, i) + carry
       IN  <<s % Base>> \o bigAddFrom(a, b, i + 1, s \div Base)

bigAdd(a, b) == bigAddFrom(a, b, 1, 0)

RECURSIVE bigSubFrom(_, _, _, _)
bigSubFrom(a, b, i, borrow) ==
  IF i > Len(a) THEN <<>>
  ELSE LET d == a[i] - limb(b, i) - borrow
       IN  IF d < 0 THEN <<d + Base>> \o bigSubFrom(a, b, i + 1, 1)
           ELSE <<d>> \o bigSubFrom(a, b, i + 1, 0)

\* a - b for a >= b
bigSub(a, b) == bigNorm(bigSubFrom(a, b, 1, 0))

RECURSIVE bigCmpFrom(_, _, _)
bigCmpFrom(a, b, i) ==
  IF i = 0 THEN 0
  ELSE IF a[i] < b[i] THEN 0 - 1
  ELSE IF a[i] > b[i] THEN 1
  ELSE bigCmpFrom(a, b, i - 1)

\* -1, 0 or 1
bigCmp(a, b) ==
  IF Len(a) < Len(b) THEN 0 - 1
  ELSE IF Len(a) > Len(b) THEN 1
  ELSE bigCmpFrom(a, b, Len(a))

bigLeq(a, b) == bigCmp(a, b) <= 0

RECURSIVE bigMulSmallFrom(_, _, _, _)
bigMulSmallFrom(a, k, i, carry) ==
  IF i > Len(a) THEN (IF carry = 0 THEN <<>> ELSE <<carry>>)
  ELSE LET s == a[i] * k + carry
       IN  <<s % Base>> \o bigMulSmallFrom(a, k, i + 1, s \div Base)

\* a * k for 0 <= k < Base
bigMulSmall(a, k) == IF k = 0 THEN <<>> ELSE bigMulSmallFrom(a, k, 1, 0)

bigShiftLimbs(a, n) == IF Len(a) = 0 THEN <<>> ELSE [i \in 1..n |-> 0] \o a

\* a * 2^bits
bigShl(a, bits) == bigShiftLimbs(bigMulSmall(a, 2^(bits % 15)), bits \div 15)

RECURSIVE bigMulFrom(_, _, _)
bigMulFrom(a, b, i) ==
  IF i > Len(b) THEN <<>>
  ELSE bigAdd(bigShiftLimbs(bigMulSmall(a, b[i]), i - 1), bigMulFrom(a, b, i + 1))

bigMul(a, b) == bigMulFrom(a, b, 1)

RECURSIVE bitsOf(_)
bitsOf(n) == IF n = 0 THEN 0 ELSE 1 + bitsOf(n \div 2)

bigBitLen(a) == IF Len(a) = 0 THEN 0 ELSE 15 * (Len(a) - 1) + bitsOf(a[Len(a)])

RECURSIVE bigDigit(_, _, _, _)
\* the largest g' >= g with g' < g + 2^(b + 1) and t * g' <= r, given t * g <= r
bigDigit(r, t, g, b) ==
  IF b < 0 THEN g
  ELSE IF bigLeq(bigMulSmall(t, g + 2^b), r) THEN bigDigit(r, t, g + 2^b, b - 1)
  ELSE bigDigit(r, t, g, b - 1)

RECURSIVE bigDivLimb(_, _, _)

\* the quotient of the lower limbs with the limb g above them
bigDivPut(rest, g) == [q |-> Append(rest.q, g), r |-> rest.r]

\* limb p of the quotient is g: go on with what is left of r
bigDivWith(r, d, p, t, g) == bigDivPut(bigDivLimb(bigSub(r, bigMulSmall(t, g)), d, p - 1), g)

\* long division, one limb of the quotient at a time, from limb p down;
\* limb p is the largest g with d * Base^(p - 1) * g <= r
bigDivLimb(r, d, p) ==
  IF p = 0 THEN [q |-> <<>>, r |-> r]
  ELSE bigDivWith(r, d, p, bigShiftLimbs(d, p - 1),
                  bigDigit(r, bigShiftLimbs(d, p - 1), 0, 14))

bigDivNorm(dm) == [q |-> bigNorm(dm.q), r |-> dm.r]

\* quotient and remainder of n by d > 0
bigDivMod(n, d) ==
  bigDivNorm(bigDivLimb(n, d, IF Len(n) >= Len(d) THEN Len(n) - Len(d) + 1 ELSE 0))

RECURSIVE bigRootBits(_, _, _, _)

\* keep the candidate c when c * c <= n
bigRootTry(n, r, p, b, c) ==
  IF bigLeq(bigMul(c, c), n) THEN bigRootBits(n, c, p, b - 1)
  ELSE bigRootBits(n, r, p, b - 1)

\* r with the bits b..0 of limb p set as far as r * r <= n allows
bigRootBits(n, r, p, b) ==
  IF b < 0 THEN r
  ELSE bigRootTry(n, r, p, b, bigAdd(r, bigShiftLimbs(<<2^b>>, p - 1)))

RECURSIVE bigRootLimb(_, _, _)
bigRootLimb(n, r, p) ==
  IF p = 0 THEN r ELSE bigRootLimb(n, bigRootBits(n, r, p, 14), p - 1)

\* the integer part of the square root of n
bigSqrt(n) == bigRootLimb(n, <<>>, (Len(n) + 1) \div 2)

zero64 == [m |-> <<>>, e |-> 0]

\* c compares the bits cut off with one half: round up above one half, and
\* at one half when more lies above (inexact) or q is odd
roundsUp(c, q, inexact) == c > 0 \/ (c = 0 /\ (inexact \/ limb(q, 1) % 2 = 1))

\* q * 2^e, where rounding up may have carried q to 2^53
carried64(q, e) ==
  IF bigBitLen(q) = 54 THEN [m |-> bigShl(<<1>>, 52), e |-> e + 1]
  ELSE [m |-> q, e |-> e]

\* dm.q with dm.r cut off, half being one half of the last place kept
roundQuotient(dm, half, e, inexact) ==
  carried64(IF roundsUp(bigCmp(dm.r, half), dm.q, inexact) THEN bigAdd(dm.q, <<1>>)
            ELSE dm.q, e)

\* n of L bits
roundBits(n, e, inexact, L) ==
  IF L <= 53 THEN [m |-> bigShl(n, 53 - L), e |-> e - (53 - L)]
  ELSE roundQuotient(bigDivMod(n, bigShl(<<1>>, L - 53)), bigShl(<<1>>, L - 54),
                     e + (L - 53), inexact)

\* n * 2^e rounded to 53 bits, to nearest and ties to even; inexact says that
\* the true value lies above n * 2^e (n then has 55 bits or more)
round64(n, e, inexact) == roundBits(n, e, inexact, bigBitLen(n))

\* the Number of a small natural number
num64(n) == IF n = 0 THEN zero64 ELSE round64(bigOfInt(n), 0, FALSE)

\* x * y
mul64(x, y) ==
  IF x = zero64 \/ y = zero64 THEN zero64
  ELSE round64(bigMul(x.m, y.m), x.e + y.e, FALSE)

\* the quotient dm.q * 2^e, inexact when a remainder is left
roundDivided(dm, e) == round64(dm.q, e, dm.r # <<>>)

\* x / y for y > 0
div64(x, y) ==
  IF x = zero64 THEN zero64
  ELSE roundDivided(bigDivMod(bigShl(x.m, 60), y.m), x.e - y.e - 60)

\* x + y with both significands brought to the exponent lo
addAligned(x, y, lo) ==
  round64(bigAdd(bigShl(x.m, x.e - lo), bigShl(y.m, y.e - lo)), lo, FALSE)

\* x + y
add64(x, y) ==
  IF x = zero64 THEN y
  ELSE IF y = zero64 THEN x
  ELSE addAligned(x, y, IF x.e < y.e THEN x.e ELSE y.e)

\* the root r of n, times 2^e, inexact when n is not a square
roundRoot(n, r, e) == round64(r, e, bigMul(r, r) # n)

\* the root of n * 2^(2 e)
rootOf(n, e) == roundRoot(n, bigSqrt(n), e)

\* the significand shifted by s bits, which makes the exponent even
sqrtShifted(x, s) == rootOf(bigShl(x.m, s), (x.e - s) \div 2)

\* Math.sqrt(x)
sqrt64(x) ==
  IF x = zero64 THEN zero64
  ELSE sqrtShifted(x, IF x.e % 2 = 0 THEN 56 ELSE 57)

\* x <= y
leq64(x, y) ==
  \/ x = zero64
  \/ y # zero64 /\ (x.e < y.e \/ (x.e = y.e /\ bigLeq(x.m, y.m)))

\* the whole part dm.q, and one more when the rest dm.r is half a unit or more
roundHalfUp(dm, unit) ==
  intOfBig(dm.q) + (IF bigLeq(unit, bigAdd(dm.r, dm.r)) THEN 1 ELSE 0)

\* x in whole units, 2^(-x.e) being one
roundToUnit(x, unit) == roundHalfUp(bigDivMod(x.m, unit), unit)

\* Math.round(x): the nearest integer, a tie going up; for x < 2^31
mathRound(x) ==
  IF x = zero64 THEN 0
  ELSE IF x.e >= 0 THEN intOfBig(bigShl(x.m, x.e))
  ELSE roundToUnit(x, bigShl(<<1>>, 0 - x.e))

-----------------------------------------------------------------------------
(* utils.js as it computes in Numbers *)

\* cosine(a, b) for vectors with small natural weights: the sums dot, na and
\* nb are then whole numbers and exact; the square roots, their product and
\* the quotient are rounded
cosine64(a, b) ==
  LET keys == DOMAIN a \cup DOMAIN b
      va == [k \in keys |-> IF k \in DOMAIN a THEN a[k] ELSE 0]
      vb == [k \in keys |-> IF k \in DOMAIN b THEN b[k] ELSE 0]
      dot == SumOver(keys, [k \in keys |-> va[k] * vb[k]])
      na == SumOver(keys, [k \in keys |-> va[k] * va[k]])
      nb == SumOver(keys, [k \in keys |-> vb[k] * vb[k]])
  IN  IF na = 0 \/ nb = 0 THEN zero64
      ELSE div64(num64(dot), mul64(sqrt64(num64(na)), sqrt64(num64(nb))))

\* Math.max(0, Math.min(100, score))
clampScore(score) == IF score > 100 THEN 100 ELSE IF score < 0 THEN 0 ELSE score

\* formatFitScore(cosineValue, overlap) for two Numbers in [0, 1]
formatFitScore64(cosineValue, overlap) ==
  clampScore(mathRound(mul64(add64(mul64(div64(num64(6), num64(10)), cosineValue),
                                   mul64(div64(num64(4), num64(10)), overlap)),
                             num64(100))))

-----------------------------------------------------------------------------
(* The generative backend, as the code sees it *)

\* what one call to the backend does: an HTTP outcome and, when it answers, a text.
\* A text is kept as what JSON.parse makes of it after cleanLLMOutput ("garbage":
\* no JSON) or, for the explanation, as its characters.
BackendFailures ==
  { [status |-> "http_error", kind |-> "none"],
    [status |-> "timeout", kind |-> "none"],
    [status |-> "ok", kind |-> "empty"] }

LLMWeek(n) ==
  [week |-> n, topics |-> <<<<"T","o","p","i","c"," ","A">>, <<"T","o","p","i","c"," ","B">>>>, practice |-> <<<<"P","r","a","c","t","i","c","e"," ","A">>>>,
   assessment |-> <<"Q","u","i","z">>, project |-> <<"M","i","n","i"," ","p","r","o","j","e","c","t">>]

\* the plans the backend is let to answer with
GoodPlan == [weeks |-> <<LLMWeek(1), LLMWeek(2), LLMWeek(3), LLMWeek(4)>>]
RepeatedWeekPlan == [weeks |-> <<LLMWeek(1), LLMWeek(1), LLMWeek(2), LLMWeek(3)>>]
ThreeWeekPlan == [weeks |-> <<LLMWeek(1), LLMWeek(2), LLMWeek(3)>>]
ShortAssessmentPlan ==
  [weeks |-> <<LLMWeek(1), LLMWeek(2), LLMWeek(3), [LLMWeek(4) EXCEPT !.assessment = <<"o","k">>]>>]

CandidatePlans == {GoodPlan, RepeatedWeekPlan, ThreeWeekPlan, ShortAssessmentPlan}

PlanResponses ==
  [status : {"http_error", "timeout"}, kind : {"none"}, value : {[weeks |-> <<>>]}]
    \cup [status : {"ok"}, kind : {"empty", "garbage"}, value : {[weeks |-> <<>>]}]
    \cup [status : {"ok"}, kind : {"json"}, value : CandidatePlans]

\* lengths of the explanation texts the backend is let to answer with
ExplanationLengths == {10, 601}

ExplainResponses ==
  [status : {"http_error", "timeout"}, kind : {"none"}, text : {<<>>}]
    \cup [status : {"ok"}, kind : {"empty"}, text : {<<>>}]
    \cup [status : {"ok"}, kind : {"text"}, text : {Rep("x", n) : n \in ExplanationLengths}]

\* geminiCall: throws on a non-2xx status, on the 15 s abort and on an empty text
geminiCallThrows(resp) == resp.status # "ok" \/ resp.kind = "empty"

-----------------------------------------------------------------------------
(* roles.json and the requests *)

Skill(name, weight) == [name |-> name, weight |-> weight]

FrontendDeveloper ==
  [roleId |-> <<"f","r","o","n","t","e","n","d","_","d","e","v","e","l","o","p","e","r">>, title |-> <<"F","r","o","n","t","e","n","d"," ","D","e","v","e","l","o","p","e","r">>,
   skills |-> <<Skill(<<"J","a","v","a","S","c","r","i","p","t">>, 2), Skill(<<"H","T","M","L">>, 2), Skill(<<"C","S","S">>, 2),
                Skill(<<"R","e","a","c","t">>, 2), Skill(<<"T","y","p","e","S","c","r","i","p","t">>, 2)>>]
DataAnalyst ==
  [roleId |-> <<"d","a","t","a","_","a","n","a","l","y","s","t">>, title |-> <<"D","a","t","a"," ","A","n","a","l","y","s","t">>,
   skills |-> <<Skill(<<"S","Q","L">>, 2), Skill(<<"P","y","t","h","o","n">>, 2), Skill(<<"E","x","c","e","l">>, 1)>>]
UiuxDesigner ==
  [roleId |-> <<"u","i","u","x","_","d","e","s","i","g","n","e","r">>, title |-> <<"U","I","/","U","X"," ","D","e","s","i","g","n","e","r">>,
   skills |-> <<Skill(<<"F","i","g","m","a">>, 2), Skill(<<"C","S","S">>, 1)>>]
BackendDeveloper ==
  [roleId |-> <<"b","a","c","k","e","n","d","_","d","e","v","e","l","o","p","e","r">>, title |-> <<"B","a","c","k","e","n","d"," ","D","e","v","e","l","o","p","e","r">>,
   skills |-> <<Skill(<<"P","y","t","h","o","n">>, 2), Skill(<<"S","Q","L">>, 2), Skill(<<"J","a","v","a","S","c","r","i","p","t">>, 0)>>]

Catalogs ==
  { <<>>,
    <<FrontendDeveloper>>,
    <<FrontendDeveloper, DataAnalyst>>,
    <<FrontendDeveloper, DataAnalyst, UiuxDesigner>>,
    <<UiuxDesigner, DataAnalyst, BackendDeveloper, FrontendDeveloper>> }

RawProfiles ==
  { [skills |-> <<<<"J","a","v","a","S","c","r","i","p","t">>, <<"H","T","M","L">>, <<"C","S","S">>>>, weeklyTime |-> 6],
    [skills |-> <<<<"P","y","t","h","o","n">>, <<" ","s","q","l"," ">>>>, weeklyTime |-> 8],
    [skills |-> <<>>, weeklyTime |-> 6] }

-----------------------------------------------------------------------------
(* index.js: POST /api/recommend and its helpers *)

explanationFallback(overlapSkills, gapSkills) ==
  <<"T","h","i","s"," ","r","o","l","e"," ","f","i","t","s"," ","y","o","u","r"," ","p","r","o","f","i","l","e"," ","b","a","s","e","d"," ","o","n"," ","y","o","u","r"," ">> \o NumToString(Len(overlapSkills))
    \o <<" ","m","a","t","c","h","i","n","g"," ","s","k","i","l","l","s","."," ","F","o","c","u","s"," ","o","n"," ","l","e","a","r","n","i","n","g"," ">> \o join(slice(gapSkills, 3), <<","," ">>)
    \o <<" ","t","o"," ","e","x","c","e","l"," ","i","n"," ","t","h","i","s"," ","c","a","r","e","e","r"," ","p","a","t","h",".">>

\* generateExplanation: the trimmed text, or the templated sentence on any error
generateExplanation(resp, overlapSkills, gapSkills) ==
  IF geminiCallThrows(resp) THEN explanationFallback(overlapSkills, gapSkills)
  ELSE trim(resp.text)

recommendationOf(scored, whyText, plan) ==
  [roleId |-> scored.role.roleId,
   title |-> scored.role.title,
   fitScore |-> scored.score,
   why |-> whyText,
   overlapSkills |-> scored.overlap,
   gapSkills |-> scored.gaps,
   plan |-> plan]

\* the response once every role has been processed
responseStatus(recs) ==
  IF Len(recs) = 0 THEN 500
  ELSE IF ~RecommendationResponseSchema(recs) THEN 500
  ELSE 200

\* no recommendation document
NoDocument == [inputProfileSnapshot |-> [skills |-> <<>>, weeklyTime |-> 0],
               top3Recommendations |-> <<>>]

\* no previous request
NoPrevious ==
  [run |-> 0, status |-> 0, roleIds |-> <<>>, fitScores |-> <<>>, role |-> 0,
   fallbackPlan |-> <<>>, fallbackWhy |-> <<>>]

Init ==
  /\ variant \in {"express", "functions"}
  /\ apiKey \in BOOLEAN
  /\ token \in {"valid", "missing", "invalid"}
  /\ catalog \in IF variant = "express" THEN Catalogs ELSE {<<>>}
  /\ rawProfile \in RawProfiles
  /\ profile = [skills |-> <<>>, weeklyTime |-> 0]
  /\ pc = "start"
  /\ topRoles = <<>>
  /\ idx = 0
  /\ why = <<>>
  /\ attempt = 0
  /\ planJson = [ok |-> FALSE, data |-> [recommendations |-> <<>>]]
  /\ recommendations = <<>>
  /\ status = 0 /\ error = "none" /\ stored = {} /\ written = NoDocument
  /\ calls = <<>>
  /\ delays = 0
  /\ paths = <<>>
  /\ fn = "none" /\ args = <<>> /\ ret = <<>>
  /\ previous = NoPrevious

\* the response when recommendations are empty or fail RecommendationResponseSchema
responseError(recs) ==
  IF Len(recs) = 0 THEN "Failed to generate any recommendations"
  ELSE "Generated recommendations are invalid"

\* res.status(code).json({ error: msg }) on a path that writes nothing
Respond(code, msg) ==
  pc' = "done" /\ status' = code /\ error' = msg /\ stored' = stored /\ written' = written

\* what Firestore does with the request's writes: the write of the result
\* (batch.commit / set) and the analytics event each succeed or fail
FirestoreOutcomes == [commit : BOOLEAN, analytics : BOOLEAN]

\* the profile and the recommendation written one after the other, each write
\* succeeding or failing on its own
SaveOneByOne ==
  \E first \in BOOLEAN, fs \in FirestoreOutcomes :
    /\ pc' = "done"
    /\ IF first /\ fs.commit
         THEN /\ status' = 200 /\ error' = "none"
              /\ stored' = {"profile", "recommendation"}
                              \cup (IF fs.analytics THEN {"analytics"} ELSE {})
              /\ written' = [inputProfileSnapshot |-> profile,
                             top3Recommendations |-> recommendations']
         ELSE /\ status' = 500 /\ error' = "Failed to generate recommendations"
              /\ stored' = (IF first THEN {"profile"} ELSE {})
                              \cup (IF fs.analytics THEN {"analytics"} ELSE {})
              /\ written' = written

\* the validated response is saved and sent: batch.commit of the profile and
\* the recommendation, logAnalytics (which swallows its own failure), res.json;
\* a failed commit is caught by the handler's catch, which logs
\* 'recommendation_failed' and answers 500
SaveAndRespond ==
  \E fs \in FirestoreOutcomes :
    /\ pc' = "done"
    /\ IF fs.commit
         THEN /\ status' = 200 /\ error' = "none"
              /\ stored' = {"profile", "recommendation"}
                              \cup (IF fs.analytics THEN {"analytics"} ELSE {})
              /\ written' = [inputProfileSnapshot |-> profile,
                             top3Recommendations |-> recommendations']
         ELSE /\ status' = 500 /\ error' = "Failed to generate recommendations"
              /\ stored' = IF fs.analytics THEN {"analytics"} ELSE {}
              /\ written' = written

\* verifyAuth middleware
VerifyAuth ==
  /\ variant = "express" /\ pc = "start"
  /\ IF token = "valid" THEN pc' = "handler" /\ UNCHANGED response 
       ELSE Respond(401, IF token = "missing" THEN "Missing authorization token"
                         ELSE "Invalid authorization token")
  /\ UNCHANGED <<variant, apiKey, token, catalog, rawProfile, profile, topRoles, idx, why,
                 attempt, planJson, recommendations, calls, delays, paths>>
  /\ UNCHANGED <<unitVars, previous>>

\* the handler without its check of topRoles.length: with no role the loop is
\* skipped and the check of recommendations.length answers
RecommendBeginUnchecked ==
  /\ variant = "express" /\ pc = "handler"
  /\ IF ~apiKey THEN
       Respond(500, "Server not configured") /\ UNCHANGED <<profile, topRoles, idx>>
     ELSE IF ~UserProfileSchema(rawProfile) THEN
       Respond(400, "Invalid profile data") /\ UNCHANGED <<profile, topRoles, idx>>
     ELSE
       LET p == sanitizeProfile(rawProfile)
           top == calculateTop3Roles(p, catalog)
       IN  /\ profile' = p
           /\ topRoles' = top
           /\ IF Len(top) = 0 THEN Respond(500, responseError(<<>>)) /\ idx' = idx
              ELSE pc' = "explain" /\ idx' = 1 /\ UNCHANGED response
  /\ UNCHANGED <<variant, apiKey, token, catalog, rawProfile, why, attempt, planJson,
                 recommendations, calls, delays, paths>>
  /\ UNCHANGED <<unitVars, previous>>

\* the handler up to the first backend call: API key, profile validation,
\* sanitizeProfile, calculateTop3Roles
RecommendBegin ==
  /\ variant = "express" /\ pc = "handler"
  /\ IF ~apiKey THEN
       Respond(500, "Server not configured") /\ UNCHANGED <<profile, topRoles, idx>>
     ELSE IF ~UserProfileSchema(rawProfile) THEN
       Respond(400, "Invalid profile data") /\ UNCHANGED <<profile, topRoles, idx>>
     ELSE
       LET p == sanitizeProfile(rawProfile)
           top == calculateTop3Roles(p, catalog)
       IN  /\ profile' = p
           /\ topRoles' = top
           /\ IF Len(top) = 0 THEN Respond(500, "No suitable roles found") /\ idx' = idx
              ELSE pc' = "explain" /\ idx' = 1 /\ UNCHANGED response
  /\ UNCHANGED <<variant, apiKey, token, catalog, rawProfile, why, attempt, planJson,
                 recommendations, calls, delays, paths>>
  /\ UNCHANGED <<unitVars, previous>>

Call(purpose, result) == [purpose |-> purpose, result |-> result]

\* generateExplanation for topRoles[idx]
Explain ==
  /\ variant = "express" /\ pc = "explain"
  /\ \E resp \in ExplainResponses :
       /\ why' = generateExplanation(resp, topRoles[idx].overlap, topRoles[idx].gaps)
       /\ calls' = <<Call("explain", IF geminiCallThrows(resp) THEN "error" ELSE "text")>>
  /\ pc' = "plan"
  /\ UNCHANGED <<variant, apiKey, token, catalog, rawProfile, profile, topRoles, idx,
                 attempt, planJson, recommendations, response, delays, paths>>
  /\ UNCHANGED <<unitVars, previous>>

\* the plan of topRoles[idx] is settled: push the recommendation, go on with the
\* next role or, after the last one, validate the response and answer
Emit(plan, path, call) ==
  LET recs == Append(recommendations, recommendationOf(topRoles[idx], why, plan))
  IN  /\ recommendations' = recs
      /\ paths' = Append(paths, [plan |-> path, explain |-> calls[1].result])
      /\ calls' = Append(calls, call)
      /\ IF idx < Len(topRoles)
           THEN idx' = idx + 1 /\ pc' = "explain" /\ UNCHANGED response
           ELSE /\ idx' = idx
                /\ IF responseStatus(recs) = 200 THEN SaveAndRespond
                   ELSE Respond(500, responseError(recs))

fallbackOf(scored) == deterministicFallbackPlan(profile, Some(scored.gaps), scored.role.title)

\* generateLearningPlan, first attempt (gemini-1.5-flash, buildPlanPrompt)
PlanStandard ==
  /\ variant = "express" /\ pc = "plan"
  /\ \E resp \in PlanResponses :
       IF geminiCallThrows(resp) THEN
         Emit(fallbackOf(topRoles[idx]), "fallback", Call("standard", "error"))
       ELSE IF resp.kind # "json" THEN
         /\ pc' = "retry"
         /\ calls' = Append(calls, Call("standard", "unparsable"))
         /\ UNCHANGED <<recommendations, paths, idx, response>>
       ELSE IF PlanSchema(resp.value) THEN
         Emit(resp.value, "standard", Call("standard", "valid"))
       ELSE
         Emit(fallbackOf(topRoles[idx]), "fallback", Call("standard", "invalid"))
  /\ UNCHANGED <<variant, apiKey, token, catalog, rawProfile, profile, topRoles, why,
                 attempt, planJson, delays>>
  /\ UNCHANGED <<unitVars, previous>>

\* generateLearningPlan, retry (gemini-1.5-pro, buildRetryPrompt)
PlanRetry ==
  /\ variant = "express" /\ pc = "retry"
  /\ \E resp \in PlanResponses :
       IF geminiCallThrows(resp) THEN
         Emit(fallbackOf(topRoles[idx]), "fallback", Call("strict", "error"))
       ELSE IF resp.kind # "json" THEN
         Emit(fallbackOf(topRoles[idx]), "fallback", Call("strict", "unparsable"))
       ELSE IF PlanSchema(resp.value) THEN
         Emit(resp.value, "strict", Call("strict", "valid"))
       ELSE
         Emit(fallbackOf(topRoles[idx]), "fallback", Call("strict", "invalid"))
  /\ UNCHANGED <<variant, apiKey, token, catalog, rawProfile, profile, topRoles, why,
                 attempt, planJson, delays>>
  /\ UNCHANGED <<unitVars, previous>>

-----------------------------------------------------------------------------
(* fallbackPlan module: scoring, and AIService of the functions variant *)

\* new Set(list) in insertion order
setOf(a) == dedupe(a)

calculateFitScore(userSkills, roleSkills) ==
  LET userVector == buildUserVector(userSkills)
      roleVector == [k \in {toLowerCase(s) : s \in Range(roleSkills)} |-> 1]
      userSkillSet == {trim(toLowerCase(s)) : s \in Range(userSkills)}
      roleSkillSet == {trim(toLowerCase(s)) : s \in Range(roleSkills)}
      ratio == IF Cardinality(roleSkillSet) > 0
               THEN [num |-> Cardinality(userSkillSet \cap roleSkillSet),
                     den |-> Cardinality(roleSkillSet)]
               ELSE [num |-> 0, den |-> 1]
      fitScore == roundedPercent(cosine(userVector, roleVector), ratio)
  IN  IF fitScore > 100 THEN 100 ELSE IF fitScore < 0 THEN 0 ELSE fitScore

RECURSIVE keepIf(_, _, _)
keepIf(a, S, member) ==
  IF Len(a) = 0 THEN <<>>
  ELSE (IF (a[1] \in S) = member THEN <<a[1]>> ELSE <<>>) \o keepIf(Tail(a), S, member)

getOverlapAndGapSkills(userSkills, roleSkills) ==
  LET userSkillSet == setOf([i \in 1..Len(userSkills) |-> trim(toLowerCase(userSkills[i]))])
      roleSkillSet == setOf([i \in 1..Len(roleSkills) |-> trim(toLowerCase(roleSkills[i]))])
  IN  [overlapSkills |-> slice(keepIf(userSkillSet, Range(roleSkillSet), TRUE), 6),
       gapSkills |-> slice(keepIf(roleSkillSet, Range(userSkillSet), FALSE), 6)]

\* the roles generateDeterministicRecommendations declares
DeterministicRoles ==
  << [title |-> <<"F","r","o","n","t","e","n","d"," ","D","e","v","e","l","o","p","e","r">>,
      skills |-> <<<<"J","a","v","a","S","c","r","i","p","t">>, <<"H","T","M","L">>, <<"C","S","S">>, <<"R","e","a","c","t">>, <<"T","y","p","e","S","c","r","i","p","t">>, <<"N","o","d","e",".","j","s">>, <<"G","i","t">>, <<"W","e","b"," ","D","e","v","e","l","o","p","m","e","n","t">>>>],
     [title |-> <<"D","a","t","a"," ","A","n","a","l","y","s","t">>,
      skills |-> <<<<"S","Q","L">>, <<"P","y","t","h","o","n">>, <<"E","x","c","e","l">>, <<"S","t","a","t","i","s","t","i","c","s">>, <<"D","a","t","a"," ","V","i","s","u","a","l","i","z","a","t","i","o","n">>, <<"R">>, <<"T","a","b","l","e","a","u">>, <<"A","n","a","l","y","t","i","c","s">>>>],
     [title |-> <<"U","I","/","U","X"," ","D","e","s","i","g","n","e","r">>,
      skills |-> <<<<"F","i","g","m","a">>, <<"A","d","o","b","e"," ","X","D">>, <<"S","k","e","t","c","h">>, <<"U","s","e","r"," ","R","e","s","e","a","r","c","h">>, <<"W","i","r","e","f","r","a","m","i","n","g">>, <<"P","r","o","t","o","t","y","p","i","n","g">>, <<"D","e","s","i","g","n"," ","S","y","s","t","e","m","s">>>>],
     [title |-> <<"B","a","c","k","e","n","d"," ","D","e","v","e","l","o","p","e","r">>,
      skills |-> <<<<"P","y","t","h","o","n">>, <<"J","a","v","a">>, <<"N","o","d","e",".","j","s">>, <<"S","Q","L">>, <<"A","P","I"," ","D","e","v","e","l","o","p","m","e","n","t">>, <<"D","a","t","a","b","a","s","e"," ","D","e","s","i","g","n">>, <<"C","l","o","u","d"," ","C","o","m","p","u","t","i","n","g">>>>],
     [title |-> <<"P","r","o","d","u","c","t"," ","M","a","n","a","g","e","r">>,
      skills |-> <<<<"P","r","o","j","e","c","t"," ","M","a","n","a","g","e","m","e","n","t">>, <<"U","s","e","r"," ","R","e","s","e","a","r","c","h">>, <<"A","n","a","l","y","t","i","c","s">>, <<"C","o","m","m","u","n","i","c","a","t","i","o","n">>, <<"S","t","r","a","t","e","g","y">>, <<"A","g","i","l","e">>, <<"L","e","a","d","e","r","s","h","i","p">>>>] >>

\* title.toLowerCase().replace(/[^a-z0-9]/g, '_')
roleIdOf(title) ==
  LET low == toLowerCase(title)
  IN  [i \in 1..Len(low) |-> IF low[i] \in LowerAlnum THEN low[i] ELSE "_"]

deterministicRecommendation(prof, role) ==
  LET og == getOverlapAndGapSkills(prof.skills, role.skills)
  IN  [roleId |-> roleIdOf(role.title),
       title |-> role.title,
       fitScore |-> calculateFitScore(prof.skills, role.skills),
       why |-> buildDeterministicWhy(role.title, og.overlapSkills, og.gapSkills),
       overlapSkills |-> og.overlapSkills,
       gapSkills |-> og.gapSkills,
       plan |-> deterministicPlanForRole(role.title, og.gapSkills, prof)]

generateDeterministicRecommendations(prof) ==
  LET recs == [i \in 1..Len(DeterministicRoles) |->
                 deterministicRecommendation(prof, DeterministicRoles[i])]
      order == sortDesc([i \in 1..Len(recs) |-> recs[i].fitScore])
  IN  [recommendations |-> slice([i \in 1..Len(order) |-> recs[order[i]]], 3)]

\* what the backend is let to answer to AIService's prompts
AIRec(fitScore, plan) ==
  [roleId |-> <<"f","r","o","n","t","e","n","d","-","d","e","v">>, title |-> <<"F","r","o","n","t","e","n","d"," ","D","e","v","e","l","o","p","e","r">>, fitScore |-> fitScore,
   why |-> <<"E","x","p","l","a","n","a","t","i","o","n"," ","o","f"," ","w","h","y"," ","t","h","i","s"," ","r","o","l","e"," ","f","i","t","s">>,
   overlapSkills |-> <<<<"J","a","v","a","S","c","r","i","p","t">>, <<"H","T","M","L">>>>, gapSkills |-> <<<<"R","e","a","c","t">>, <<"T","y","p","e","S","c","r","i","p","t">>>>,
   plan |-> plan]

BlankTopicPlan ==
  [weeks |-> <<LLMWeek(1), LLMWeek(2), [LLMWeek(3) EXCEPT !.topics = <<<<" "," ">>>>], LLMWeek(4)>>]

AICandidates ==
  { [recommendations |-> <<AIRec(85, GoodPlan), AIRec(70, GoodPlan)>>],
    [recommendations |-> <<AIRec(85, RepeatedWeekPlan)>>],
    [recommendations |-> <<AIRec(0, GoodPlan)>>],
    [recommendations |-> <<AIRec(85, ThreeWeekPlan)>>],
    [recommendations |-> <<AIRec(85, BlankTopicPlan)>>],
    [recommendations |-> <<>>] }

AIResponses ==
  [status : {"http_error"}, kind : {"none"}, value : {[recommendations |-> <<>>]}]
    \cup [status : {"ok"}, kind : {"empty", "garbage"}, value : {[recommendations |-> <<>>]}]
    \cup [status : {"ok"}, kind : {"json"}, value : AICandidates]

NullJson == [ok |-> FALSE, data |-> [recommendations |-> <<>>]]

\* AIService.attemptParseResponse: null, or the parsed object
attemptParseResponse(resp) ==
  IF resp.kind # "json" THEN NullJson
  ELSE IF \E i \in 1..Len(resp.value.recommendations) :
            LET rec == resp.value.recommendations[i]
            IN  \/ Len(rec.title) = 0 \/ rec.fitScore = 0 \/ Len(rec.why) = 0
                \/ Len(rec.plan.weeks) # 4
       THEN NullJson
  ELSE [ok |-> TRUE, data |-> resp.value]

\* handleRecommendations saves the result and the analytics event inside a
\* try whose catch only warns, then answers 200
SaveAndContinue(sanitizedProfile) ==
  \E fs \in FirestoreOutcomes :
    /\ pc' = "done" /\ status' = 200 /\ error' = "none"
    /\ stored' = IF ~fs.commit THEN {}
                 ELSE {"user"} \cup (IF fs.analytics THEN {"analytics"} ELSE {})
    /\ written' = IF ~fs.commit THEN written
                  ELSE [inputProfileSnapshot |-> sanitizedProfile,
                        top3Recommendations |-> recommendations']

\* the catch of handleRecommendations: ErrorHandler.handle logs the error to
\* error_logs (swallowing a failure to do so) and the handler answers 500
RespondError ==
  \E logged \in BOOLEAN :
    /\ pc' = "done" /\ status' = 500 /\ error' = "An unexpected error occurred"
    /\ stored' = IF logged THEN {"error_log"} ELSE {}
    /\ written' = written

\* handleRecommendations answers with what generateRecommendations returned
AIReturn(sanitizedProfile, result, path) ==
  /\ recommendations' = result.recommendations
  /\ paths' = <<[plan |-> path, explain |-> "none"]>>
  /\ SaveAndContinue(sanitizedProfile)

\* handleRecommendations up to the first backend call
HandleRecommendations ==
  /\ variant = "functions" /\ pc = "start"
  /\ IF token = "missing" THEN
       Respond(401, "Authentication required")
         /\ UNCHANGED <<profile, recommendations, paths, attempt>>
     ELSE IF token = "invalid" THEN       \* verifyIdToken throws: the catch answers 500
       RespondError /\ UNCHANGED <<profile, recommendations, paths, attempt>>
     ELSE IF ~validateProfile(rawProfile) THEN
       Respond(400, "Invalid profile data")
         /\ UNCHANGED <<profile, recommendations, paths, attempt>>
     ELSE
       LET p == sanitizeProfileV(rawProfile)
       IN  /\ profile' = p
           /\ IF ~apiKey
                THEN AIReturn(p, generateDeterministicRecommendations(p), "fallback")
                       /\ attempt' = attempt
                ELSE /\ pc' = "ai_standard" /\ attempt' = 1
                     /\ UNCHANGED <<recommendations, paths, response>>
  /\ UNCHANGED <<variant, apiKey, token, catalog, rawProfile, topRoles, idx, why, planJson,
                 calls, delays>>
  /\ UNCHANGED <<unitVars, previous>>

\* one try more than the code allows
maxRetriesPlusOne == 2 + 1

\* callGeminiWithRetry(model, prompt, maxRetries = 2)
maxRetries == 2

\* callGeminiWithRetry failed a try: wait and try again, or rethrow after the
\* last try; nothing catches it before handleRecommendations, which answers 500
AITryFailed(kind) ==
  /\ calls' = Append(calls, Call(kind, "error"))
  /\ IF attempt < maxRetries
       THEN attempt' = attempt + 1 /\ delays' = delays + 1 /\ UNCHANGED <<pc, response>>
       ELSE RespondError /\ UNCHANGED <<attempt, delays>>
  /\ UNCHANGED <<planJson, recommendations, paths>>

\* generateRecommendations after the last attemptParseResponse
AISettle(parsed, kind) ==
  IF ~parsed.ok \/ ~validatePlan(parsed.data)
    THEN /\ AIReturn(profile, generateDeterministicRecommendations(profile), "fallback")
         /\ calls' = Append(calls, Call(kind, IF parsed.ok THEN "invalid" ELSE "unparsable"))
    ELSE /\ AIReturn(profile, parsed.data, kind)
         /\ calls' = Append(calls, Call(kind, "valid"))

\* Try 1: standard prompt, one try of callGeminiWithRetry
AIStandard ==
  /\ variant = "functions" /\ pc = "ai_standard"
  /\ \E resp \in AIResponses :
       IF resp.status # "ok" THEN AITryFailed("standard")
       ELSE LET parsed == attemptParseResponse(resp)
            IN  /\ planJson' = parsed
                /\ IF ~parsed.ok
                     THEN /\ pc' = "ai_strict" /\ attempt' = 1
                          /\ calls' = Append(calls, Call("standard", "unparsable"))
                          /\ UNCHANGED <<recommendations, paths, response, delays>>
                     ELSE AISettle(parsed, "standard") /\ UNCHANGED <<attempt, delays>>
  /\ UNCHANGED <<variant, apiKey, token, catalog, rawProfile, profile, topRoles, idx, why>>
  /\ UNCHANGED <<unitVars, previous>>

\* Try 2: strict prompt, one try of callGeminiWithRetry
AIStrict ==
  /\ variant = "functions" /\ pc = "ai_strict"
  /\ \E resp \in AIResponses :
       IF resp.status # "ok" THEN AITryFailed("strict")
       ELSE LET parsed == attemptParseResponse(resp)
            IN  /\ planJson' = parsed
                /\ AISettle(parsed, "strict") /\ UNCHANGED <<attempt, delays>>
  /\ UNCHANGED <<variant, apiKey, token, catalog, rawProfile, profile, topRoles, idx, why>>
  /\ UNCHANGED <<unitVars, previous>>

-----------------------------------------------------------------------------
(* Unit harness: one call of a pure function on an input from a bounded set *)

UnitTitleLengths == {100, 160, 161, 179, 180}

UnitTitles ==
  { <<>>, <<"F","r","o","n","t","e","n","d"," ","D","e","v","e","l","o","p","e","r">>, <<"U","n","k","n","o","w","n"," ","E","x","o","t","i","c"," ","R","o","l","e">>, <<"U","I","/","U","X"," ","D","e","s","i","g","n","e","r">>,
    <<"D","a","t","a"," ","S","c","i","e","n","t","i","s","t">>, <<"S","i","t","e"," ","R","e","l","i","a","b","i","l","i","t","y">>, <<"F","r","u","i","t"," ","P","i","c","k","e","r">> }
    \cup {Rep("x", n) : n \in UnitTitleLengths}

UnitGapSkills ==
  { Undefined, Some(<<>>), Some(<<<<"R","e","a","c","t">>, <<"T","y","p","e","S","c","r","i","p","t">>>>),
    Some(<<<<"S","Q","L">>, <<"P","y","t","h","o","n">>, <<"E","x","c","e","l">>, <<"S","t","a","t","i","s","t","i","c","s">>, <<"R">>, <<"T","a","b","l","e","a","u">>, <<"A","n","a","l","y","t","i","c","s">>>>) }

UnitProfiles == {[skills |-> <<<<"h","t","m","l">>>>, weeklyTime |-> t] : t \in {4, 6, 30}}

InitUnit ==
  /\ variant = "none" /\ apiKey = FALSE /\ token = "missing" /\ catalog = <<>>
  /\ rawProfile = [skills |-> <<>>, weeklyTime |-> 0]
  /\ profile = [skills |-> <<>>, weeklyTime |-> 0]
  /\ pc = "unit" /\ topRoles = <<>> /\ idx = 0 /\ why = <<>> /\ attempt = 0
  /\ planJson = NullJson /\ recommendations = <<>>
  /\ status = 0 /\ error = "none" /\ stored = {} /\ written = NoDocument
  /\ calls = <<>> /\ delays = 0 /\ paths = <<>>
  /\ fn = "none" /\ args = <<>> /\ ret = <<>>
  /\ previous = NoPrevious

CallDeterministicPlanForRole ==
  /\ fn = "none"
  /\ \E t \in UnitTitles, g \in UnitGapSkills, p \in UnitProfiles :
       /\ fn' = "deterministicPlanForRole"
       /\ args' = [roleTitle |-> t, gapSkills |-> g, profile |-> p]
       /\ ret' = deterministicPlanForRole(t, g, p)
  /\ UNCHANGED handlerVars

CallDeterministicFallbackPlan ==
  /\ fn = "none"
  /\ \E t \in UnitTitles, g \in UnitGapSkills, p \in UnitProfiles :
       /\ fn' = "deterministicFallbackPlan"
       /\ args' = [roleTitle |-> t, gapSkills |-> g, profile |-> p]
       /\ ret' = deterministicFallbackPlan(p, g, t)
  /\ UNCHANGED handlerVars


-----------------------------------------------------------------------------
(* The same request, sent a second time *)

\* was the plan (the why) of recommendation k built without the backend
planByFallback(k) ==
  /\ k <= Len(recommendations)
  /\ IF variant = "express" THEN paths[k].plan = "fallback"
     ELSE paths[1].plan = "fallback"

whyByTemplate(k) ==
  /\ k <= Len(recommendations)
  /\ IF variant = "express" THEN paths[k].explain = "error"
     ELSE paths[1].plan = "fallback"

\* what the client keeps of an answer: the ranking, and for role k what the
\* fallback path produced
answered(k) ==
  [run |-> 1, status |-> status,
   roleIds |-> [i \in 1..Len(recommendations) |-> recommendations[i].roleId],
   fitScores |-> [i \in 1..Len(recommendations) |-> recommendations[i].fitScore],
   role |-> k,
   fallbackPlan |-> IF planByFallback(k) THEN <<recommendations[k].plan>> ELSE <<>>,
   fallbackWhy |-> IF whyByTemplate(k) THEN <<recommendations[k].why>> ELSE <<>>]

\* the client, having been answered with recommendations, sends the same
\* profile again; the server keeps nothing of the first request in memory
Again ==
  /\ pc = "done" /\ status = 200 /\ previous.run = 0
  /\ \E k \in 1..3 : previous' = answered(k)
  /\ pc' = "start"
  /\ profile' = [skills |-> <<>>, weeklyTime |-> 0]
  /\ topRoles' = <<>> /\ idx' = 0 /\ why' = <<>> /\ attempt' = 0
  /\ planJson' = NullJson /\ recommendations' = <<>>
  /\ status' = 0 /\ error' = "none" /\ stored' = {} /\ written' = NoDocument
  /\ calls' = <<>> /\ delays' = 0 /\ paths' = <<>>
  /\ UNCHANGED <<variant, apiKey, token, catalog, rawProfile>>
  /\ UNCHANGED unitVars


\* AIService.callGeminiWithRetry awaits model.generateContent(prompt), which
\* has no timeout: a backend that does not answer leaves the promise, and
\* with it the request, pending
GenerateContentPending ==
  /\ variant = "functions" /\ pc \in {"ai_standard", "ai_strict"}
  /\ pc' = "pending"
  /\ UNCHANGED <<variant, apiKey, token, catalog, rawProfile, profile, topRoles, idx, why,
                 attempt, planJson, recommendations, response, calls, delays, paths>>
  /\ UNCHANGED <<unitVars, previous>>

\* where a request stands: its step and its loop counters
position == <<pc, idx, attempt>>

-----------------------------------------------------------------------------
(* Unit harness: the scoring functions *)

\* skill lists as a user types them
UnitSkillLists ==
  { <<>>,
    <<<<"J","a","v","a","S","c","r","i","p","t">>, <<"H","T","M","L">>, <<"C","S","S">>>>,
    <<<<"J","a","v","a","S","c","r","i","p","t">>, <<"R","e","a","c","t">>>>,
    <<<<"J","a","v","a","S","c","r","i","p","t">>, <<"j","s">>, <<" "," ","R","e","a","c","t"," "," ">>>>,
    <<<<"j","s">>, <<"j","a","v","a","s","c","r","i","p","t">>>>,
    <<<<"P","y","t","h","o","n">>, <<" ","s","q","l"," ">>, <<"C","o","o","k","i","n","g">>, <<"E","x","c","e","l">>>>,
    <<<<"H","T","M","L">>, <<"h","t","m","l">>, <<" ","H","t","m","l"," ">>, <<"C","S","S">>>>,
    <<<<"R","e","a","c","t">>, <<"T","y","p","e","S","c","r","i","p","t">>, <<"C","S","S">>, <<"H","T","M","L">>, <<"J","a","v","a","s","c","r","i","p","t">>, <<"G","i","t">>>> }

\* more than 50 distinct skills: "a", "aa", "aaa", ...
ManySkills == [i \in 1..52 |-> Rep("a", i)]

TwoSkillRole ==
  [roleId |-> <<"r","2">>, title |-> <<"T","w","o"," ","S","k","i","l","l","s">>,
   skills |-> <<Skill(<<"J","a","v","a","S","c","r","i","p","t">>, 0), Skill(<<"T","y","p","e","S","c","r","i","p","t">>, 0)>>]
NoSkillRole == [roleId |-> <<"r","0">>, title |-> <<"N","o"," ","S","k","i","l","l","s">>, skills |-> <<>>]
RepeatedSkillRole ==
  [roleId |-> <<"r","3">>, title |-> <<"R","e","p","e","a","t","e","d"," ","S","k","i","l","l","s">>,
   skills |-> <<Skill(<<"S","Q","L">>, 2), Skill(<<"s","q","l">>, 2), Skill(<<"P","y","t","h","o","n">>, 2)>>]

UnitRoles ==
  {FrontendDeveloper, DataAnalyst, BackendDeveloper, UiuxDesigner,
   TwoSkillRole, NoSkillRole, RepeatedSkillRole}

\* cosine values k/8 and overlap ratios j/8
Eighths == 8
UnitCosines == {[dot |-> k, sq |-> Eighths * Eighths] : k \in 0..Eighths}
UnitRatios == {[num |-> j, den |-> Eighths] : j \in 0..Eighths}

\* the handler's pipeline for one role: sanitizeProfile, then calculateTop3Roles
CallCalculateTop3Roles ==
  /\ fn = "none"
  /\ \E l \in UnitSkillLists, role \in UnitRoles :
       LET p == sanitizeProfile([skills |-> l, weeklyTime |-> 6])
       IN  /\ fn' = "calculateTop3Roles"
           /\ args' = [skills |-> l, role |-> role]
           /\ ret' = [profile |-> p,
                      scored |-> calculateTop3Roles(p, <<role>>)[1],
                      cosine |-> cosine(buildUserVector(p.skills), buildRoleVector(role)),
                      overlapRatio |-> overlapRatio(p.skills, role)]
  /\ UNCHANGED handlerVars

CallFormatFitScore ==
  /\ fn = "none"
  /\ \E c \in UnitCosines, o \in UnitRatios :
       /\ fn' = "formatFitScore"
       /\ args' = [cosineValue |-> c, overlap |-> o]
       /\ ret' = formatFitScore64(div64(num64(c.dot), num64(Eighths)),
                                  div64(num64(o.num), num64(Eighths)))
  /\ UNCHANGED handlerVars

CallCalculateFitScore ==
  /\ fn = "none"
  /\ \E l \in UnitSkillLists, k \in 1..Len(DeterministicRoles) :
       /\ fn' = "calculateFitScore"
       /\ args' = [userSkills |-> l, roleSkills |-> DeterministicRoles[k].skills]
       /\ ret' = calculateFitScore(l, DeterministicRoles[k].skills)
  /\ UNCHANGED handlerVars

CallOverlapRatio ==
  /\ fn = "none"
  /\ \E l \in UnitSkillLists, role \in UnitRoles :
       /\ fn' = "overlapRatio"
       /\ args' = [userSkills |-> l, role |-> role]
       /\ ret' = overlapRatio(l, role)
  /\ UNCHANGED handlerVars

CallNormalizeSkills ==
  /\ fn = "none"
  /\ \E l \in UnitSkillLists \cup {ManySkills} :
       /\ fn' = "normalizeSkills"
       /\ args' = [skills |-> l]
       /\ ret' = normalizeSkills(l)
  /\ UNCHANGED handlerVars

\* skill vectors over three keys: the user's have weight 1, a role's 1 or 2
UnitKeys == {<<"j","s">>, <<"r","e","a","c","t">>, <<"s","q","l">>}
UnitUserVectors == UNION {[K -> {1}] : K \in SUBSET UnitKeys}
UnitRoleVectors == UNION {[K -> {1, 2}] : K \in SUBSET UnitKeys}

CallCosine ==
  /\ fn = "none"
  /\ \E a \in UnitUserVectors, b \in UnitRoleVectors :
       /\ fn' = "cosine"
       /\ args' = [a |-> a, b |-> b]
       /\ ret' = cosine64(a, b)
  /\ UNCHANGED handlerVars

-----------------------------------------------------------------------------
(* calls of the validators on plans, weeks and recommendations *)

\* validation.js createTestPlan: week i of its plan
testWeek(i) ==
  [week |-> i,
   topics |-> <<<<"T","o","p","i","c"," ">> \o NumToString(2 * i - 1), <<"T","o","p","i","c"," ">> \o NumToString(2 * i)>>,
   practice |-> <<<<"P","r","a","c","t","i","c","e"," ">> \o NumToString(2 * i - 1), <<"P","r","a","c","t","i","c","e"," ">> \o NumToString(2 * i)>>,
   assessment |-> <<"A","s","s","e","s","s","m","e","n","t"," ">> \o NumToString(i),
   project |-> IF i = 4 THEN <<"C","a","p","s","t","o","n","e"," ","P","r","o","j","e","c","t">> ELSE <<"P","r","o","j","e","c","t"," ">> \o NumToString(i)]

\* the recommendation of createTestPlan around a given plan
testRecommendation(plan) ==
  [roleId |-> <<"t","e","s","t","_","r","o","l","e">>,
   title |-> <<"T","e","s","t"," ","R","o","l","e">>,
   fitScore |-> 85,
   why |-> <<"T","h","i","s"," ","i","s"," ","a"," ","t","e","s","t"," ","r","e","c","o","m","m","e","n","d","a","t","i","o","n">>,
   overlapSkills |-> <<<<"J","a","v","a","S","c","r","i","p","t">>, <<"H","T","M","L">>>>,
   gapSkills |-> <<<<"R","e","a","c","t">>, <<"T","y","p","e","S","c","r","i","p","t">>>>,
   plan |-> plan]

createTestPlan ==
  [recommendations |-> <<testRecommendation([weeks |-> [i \in 1..4 |-> testWeek(i)]])>>]

\* the longest weeks array tried
MaxWeeks == 6

\* plans of n well-formed weeks, numbered 1..4 and then 1.. again, and the
\* plan of utils.test.js with its one-week variant
UnitPlans ==
  {[weeks |-> [i \in 1..n |-> testWeek(((i - 1) % 4) + 1)]] : n \in 0..MaxWeeks}
    \cup {[weeks |-> [i \in 1..n |->
             [week |-> i, topics |-> <<<<"T","o","p","i","c"," ","A">>, <<"T","o","p","i","c"," ","B">>>>, practice |-> <<<<"P","r","a","c","t","i","c","e"," ","A">>>>,
              assessment |-> <<"Q","u","i","z">>, project |-> <<"M","i","n","i"," ","p","r","o","j","e","c","t">>]]] : n \in {1, 4}}
    \cup {[weeks |-> [i \in 1..4 |-> IF i = bad THEN [testWeek(i) EXCEPT !.topics = <<>>]
                                      ELSE testWeek(i)]] : bad \in 1..4}

CallPlanValidators ==
  /\ fn = "none"
  /\ \E plan \in UnitPlans :
       /\ fn' = "validatePlan"
       /\ args' = [plan |-> plan]
       /\ ret' = [PlanSchema |-> PlanSchema(plan),
                  validateLearningPlan |-> validateLearningPlan(plan),
                  validatePlan |-> validatePlan([recommendations |-> <<testRecommendation(plan)>>])]
  /\ UNCHANGED handlerVars

\* n entries "Item 1" .. "Item n"
items(n) == [i \in 1..n |-> <<"I","t","e","m"," ">> \o NumToString(i)]

UnitTopicLists == {<<>>, <<<<>>>>, <<<<" "," ">>>>, <<<<"T","o","p","i","c"," ","1">>, <<" ">>>>, items(1), items(10), items(11)}
UnitPracticeLists == {<<>>, <<<<" ">>>>, items(1), items(8), items(9)}
UnitTexts == {<<>>, <<" "," "," ">>, <<"a","b">>, <<"Q","u","i","z">>}

UnitWeeks ==
  {[week |-> 1, topics |-> t, practice |-> p, assessment |-> a, project |-> j] :
     t \in UnitTopicLists, p \in UnitPracticeLists, a \in UnitTexts, j \in {<<>>, <<"M","i","n","i"," ","p","r","o","j","e","c","t">>}}

CallWeekValidators ==
  /\ fn = "none"
  /\ \E week \in UnitWeeks :
       /\ fn' = "validateWeek"
       /\ args' = [week |-> week]
       /\ ret' = [WeekSchema |-> WeekSchema(week), validateWeek |-> validateWeek(week)]
  /\ UNCHANGED handlerVars

UnitFitScores == {0 - 1, 0, 1, 85, 100, 101}
UnitWhys == {Rep("w", n) : n \in {0, 9, 10, 600, 601}}
UnitSkillCounts == {0, 20, 21}

\* the recommendation of createTestPlan with one or more fields changed
UnitRecommendations ==
  {[testRecommendation([weeks |-> [i \in 1..n |-> testWeek(i)]])
      EXCEPT !.fitScore = f, !.title = t, !.why = w, !.overlapSkills = items(k)] :
     n \in {3, 4}, f \in UnitFitScores, t \in {<<>>, <<"T","e","s","t"," ","R","o","l","e">>}, w \in UnitWhys,
     k \in UnitSkillCounts}

CallRecommendationValidators ==
  /\ fn = "none"
  /\ \E rec \in UnitRecommendations :
       /\ fn' = "validateRecommendation"
       /\ args' = [rec |-> rec]
       /\ ret' = [validateRecommendation |-> validateRecommendation(rec),
                  RecommendationItemSchema |-> RecommendationItemSchema(rec),
                  attemptParseResponse |->
                    attemptParseResponse([status |-> "ok", kind |-> "json",
                                          value |-> [recommendations |-> <<rec>>]]).ok]
  /\ UNCHANGED handlerVars

-----------------------------------------------------------------------------
(* RetryHandler.withRetry(operation, maxRetries): one call of it.  args holds
   maxRetries; ret holds the position in the loop (pc), the loop counter
   (attempt), the outcome of every invocation of the operation (invocations),
   the delay of every wait (waits) and what the call settled with (result). *)

\* the largest maxRetries tried
MaxTries == 4

Outcomes == {[ok |-> TRUE, value |-> "recommendations"],
             [ok |-> FALSE, value |-> "timeout"],
             [ok |-> FALSE, value |-> "quota"]}

RETRY_DELAY == 1000

Unsettled == [ok |-> FALSE, value |-> "undefined"]

InitRetry ==
  /\ variant = "none" /\ apiKey = FALSE /\ token = "missing" /\ catalog = <<>>
  /\ rawProfile = [skills |-> <<>>, weeklyTime |-> 0]
  /\ profile = [skills |-> <<>>, weeklyTime |-> 0]
  /\ pc = "unit" /\ topRoles = <<>> /\ idx = 0 /\ why = <<>> /\ attempt = 0
  /\ planJson = NullJson /\ recommendations = <<>>
  /\ status = 0 /\ error = "none" /\ stored = {} /\ written = NoDocument
  /\ calls = <<>> /\ delays = 0 /\ paths = <<>>
  /\ previous = NoPrevious
  /\ fn = "withRetry"
  /\ \E n \in 0..MaxTries : args = [maxRetries |-> n]
  /\ ret = [pc |-> "loop", attempt |-> 1, invocations |-> <<>>, waits |-> <<>>,
            result |-> Unsettled]

\* attempt === maxRetries
lastAttemptAfter(n, limit) == n = limit + 1

lastAttempt(n, limit) == n = limit

\* try { return await operation(); } catch (error) { lastError = error; ... }
WithRetryInvoke ==
  /\ fn = "withRetry" /\ ret.pc = "loop" /\ ret.attempt <= args.maxRetries
  /\ \E o \in Outcomes :
       ret' = IF o.ok
              THEN [ret EXCEPT !.pc = "resolved", !.invocations = Append(@, o), !.result = o]
              ELSE [ret EXCEPT !.pc = "caught", !.invocations = Append(@, o)]
  /\ UNCHANGED <<fn, args>>
  /\ UNCHANGED handlerVars

\* the rest of the catch block: throw after the last attempt, else wait
\* RETRY_DELAY * 2^(attempt - 1) and go round the loop
WithRetryCatch ==
  /\ fn = "withRetry" /\ ret.pc = "caught"
  /\ LET lastError == ret.invocations[Len(ret.invocations)]
     IN  ret' = IF lastAttempt(ret.attempt, args.maxRetries)
                THEN [ret EXCEPT !.pc = "rejected", !.result = lastError]
                ELSE [ret EXCEPT !.pc = "loop", !.attempt = @ + 1,
                                 !.waits = Append(@, RETRY_DELAY * 2^(ret.attempt - 1))]
  /\ UNCHANGED <<fn, args>>
  /\ UNCHANGED handlerVars

\* the loop ends without a return or a throw: throw lastError
WithRetryExhausted ==
  /\ fn = "withRetry" /\ ret.pc = "loop" /\ ret.attempt > args.maxRetries
  /\ ret' = [ret EXCEPT !.pc = "rejected",
                        !.result = IF Len(ret.invocations) = 0 THEN Unsettled
                                   ELSE ret.invocations[Len(ret.invocations)]]
  /\ UNCHANGED <<fn, args>>
  /\ UNCHANGED handlerVars

NextRetry == WithRetryInvoke \/ WithRetryCatch \/ WithRetryExhausted

SpecRetry == InitRetry /\ [][NextRetry]_vars

-----------------------------------------------------------------------------
(* POST /api/delete_user_data of one user, with a /api/recommend and a
   /api/share/:recommendationId request of the same user in flight.  args
   holds the user and which of the two other requests are in flight; ret
   holds the Firestore collections (profile, recommendations, analytics,
   shareTokens), the position of each handler (del, rec, share), the
   document lists the delete has read (snapshot) and whether a handler
   wrote after the delete had answered (late).  Share tokens are younger
   than their 24 h expiry. *)

Users == {"u1", "u2"}

\* the documents Firestore may hold before the requests arrive
OldProfiles == {[uid |-> "u1", id |-> "latest"], [uid |-> "u2", id |-> "latest"]}
OldRecommendations == {[uid |-> "u1", id |-> "r1"]}
OldAnalytics == {[uid |-> "u1", id |-> "a1"], [uid |-> "u2", id |-> "a3"]}
OldShareTokens == {[token |-> "t1", uid |-> "u1", recommendationId |-> "r1"]}

\* the recommendation ids a client may ask a share token for
SharedIds == {"r1", "r2"}

NoSnapshot == [profile |-> {}, recommendations |-> {}, analytics |-> {}]

InitDelete ==
  /\ variant = "none" /\ apiKey = FALSE /\ token = "valid" /\ catalog = <<>>
  /\ rawProfile = [skills |-> <<>>, weeklyTime |-> 0]
  /\ profile = [skills |-> <<>>, weeklyTime |-> 0]
  /\ pc = "unit" /\ topRoles = <<>> /\ idx = 0 /\ why = <<>> /\ attempt = 0
  /\ planJson = NullJson /\ recommendations = <<>>
  /\ status = 0 /\ error = "none" /\ stored = {} /\ written = NoDocument
  /\ calls = <<>> /\ delays = 0 /\ paths = <<>>
  /\ previous = NoPrevious
  /\ fn = "delete_user_data"
  /\ \E r \in BOOLEAN, s \in BOOLEAN :
       /\ args = [uid |-> "u1", recommend |-> r, share |-> s]
       /\ \E p \in SUBSET OldProfiles, rs \in SUBSET OldRecommendations,
             a \in SUBSET OldAnalytics, t \in SUBSET OldShareTokens :
            ret = [profile |-> p, recommendations |-> rs, analytics |-> a,
                   shareTokens |-> t,
                   del |-> "reading", snapshot |-> NoSnapshot,
                   rec |-> IF r THEN "saving" ELSE "none",
                   share |-> IF s THEN "creating" ELSE "none",
                   late |-> FALSE]

\* the documents of a collection that belong to the user
ofUser(docs, uid) == {d \in docs : d.uid = uid}

\* const [profileDocs, recommendationDocs, analyticsDocs] = await Promise.all([...get()])
DeleteRead ==
  /\ fn = "delete_user_data" /\ ret.del = "reading"
  /\ ret' = [ret EXCEPT !.del = "committing",
                        !.snapshot = [profile |-> ofUser(ret.profile, args.uid),
                                      recommendations |-> ofUser(ret.recommendations, args.uid),
                                      analytics |-> ofUser(ret.analytics, args.uid)]]
  /\ UNCHANGED <<fn, args>>
  /\ UNCHANGED handlerVars

\* batch.delete(doc.ref) for every document read, await batch.commit(), then
\* res.json({ success: true }); a commit that throws is answered with 500
DeleteCommit ==
  /\ fn = "delete_user_data" /\ ret.del = "committing"
  /\ \E ok \in BOOLEAN :
       ret' = IF ok
              THEN [ret EXCEPT !.del = "success",
                               !.profile = @ \ ret.snapshot.profile,
                               !.recommendations = @ \ ret.snapshot.recommendations,
                               !.analytics = @ \ ret.snapshot.analytics]
              ELSE [ret EXCEPT !.del = "failed"]
  /\ UNCHANGED <<fn, args>>
  /\ UNCHANGED handlerVars

\* /api/recommend: batch.set(profileRef, ...), batch.set(recommendationRef, ...),
\* await batch.commit(); a commit that throws leads to the catch block
RecommendSave ==
  /\ fn = "delete_user_data" /\ ret.rec = "saving"
  /\ \E ok \in BOOLEAN :
       ret' = IF ok
              THEN [ret EXCEPT !.rec = "logging",
                               !.profile = @ \cup {[uid |-> args.uid, id |-> "latest"]},
                               !.recommendations = @ \cup {[uid |-> args.uid, id |-> "r2"]},
                               !.late = @ \/ ret.del = "success"]
              ELSE [ret EXCEPT !.rec = "logging"]
  /\ UNCHANGED <<fn, args>>
  /\ UNCHANGED handlerVars

\* await logAnalytics(firestore, req.uid, 'recommendation_generated' or
\* 'recommendation_failed', ...): firestore.collection('analytics').add
RecommendLog ==
  /\ fn = "delete_user_data" /\ ret.rec = "logging"
  /\ ret' = [ret EXCEPT !.rec = "answered",
                        !.analytics = @ \cup {[uid |-> args.uid, id |-> "a2"]},
                        !.late = @ \/ ret.del = "success"]
  /\ UNCHANGED <<fn, args>>
  /\ UNCHANGED handlerVars

\* /api/share/:recommendationId: tokenDoc.set({ uid, recommendationId, expiresAt })
ShareCreate ==
  /\ fn = "delete_user_data" /\ ret.share = "creating"
  /\ \E recommendationId \in SharedIds :
       ret' = [ret EXCEPT !.share = "answered",
                          !.shareTokens = @ \cup {[token |-> "t2", uid |-> args.uid,
                                                   recommendationId |-> recommendationId]},
                          !.late = @ \/ ret.del = "success"]
  /\ UNCHANGED <<fn, args>>
  /\ UNCHANGED handlerVars

\* GET /api/share/view/:token answers with a recommendation
resolves(t, recommendationDocs) ==
  [uid |-> t.uid, id |-> t.recommendationId] \in recommendationDocs

NextDelete == DeleteRead \/ DeleteCommit \/ RecommendSave \/ RecommendLog \/ ShareCreate

SpecDelete == InitDelete /\ [][NextDelete]_vars

-----------------------------------------------------------------------------
(* Properties *)

\* the plan validator of the variant serving the request
planAccepted(plan) ==
  IF variant = "express" THEN PlanSchema(plan) ELSE validateLearningPlan(plan)

profileAccepted ==
  IF variant = "express" THEN UserProfileSchema(rawProfile) ELSE validateProfile(rawProfile)

catalogSize == IF variant = "express" THEN Len(catalog) ELSE Len(DeterministicRoles)

planCalls == SelectSeq(calls, LAMBDA c : c.purpose \in {"standard", "strict"})
callsOf(purpose) == SelectSeq(calls, LAMBDA c : c.purpose = purpose)

\* the answer is an error because Firestore refused the write of the result
storeFailed == error = "Failed to generate recommendations"

\* the plan of the role in progress has just been settled by the fallback generator
settledByFallback ==
  /\ Len(paths) > 0 /\ paths[Len(paths)].plan = "fallback"
  /\ Len(planCalls) > 0 /\ calls[Len(calls)].purpose \in {"standard", "strict"}

\* C1: once plan generation has started (a backend call for a plan was made), the
\* request ends with a recommendation for every selected role, and every plan ever
\* emitted passes the variant's plan validator.
C1_PlanGenerationAlwaysAccepted ==
  /\ \A i \in 1..Len(recommendations) : planAccepted(recommendations[i].plan)
  /\ (pc = "done" /\ Len(planCalls) > 0) =>
        /\ Len(recommendations) > 0
        /\ variant = "express" => Len(recommendations) = Len(topRoles)

\* C2: an authenticated request with a valid profile and a non-empty catalog is
\* answered with success, whatever the backend did and whether or not an API
\* key is configured (Firestore accepting the write of the result).
C2_BackendNeverFailsRecommend ==
  (pc = "done" /\ token = "valid" /\ profileAccepted /\ catalogSize > 0 /\ ~storeFailed)
    => status = 200

\* C3: with a valid profile, a non-empty catalog, a configured key and explanations
\* of valid length, the answer is a success carrying min(3, |catalog|)
\* recommendations, each with a 4-week plan.
C3_ExactlyMin3Recommendations ==
  (/\ variant = "express" /\ pc = "done" /\ token = "valid" /\ apiKey
   /\ profileAccepted /\ catalogSize > 0 /\ ~storeFailed
   /\ \A i \in 1..Len(recommendations) :
        Len(recommendations[i].why) >= 10 /\ Len(recommendations[i].why) <= 600)
  => /\ status = 200
     /\ Len(recommendations) = (IF catalogSize < 3 THEN catalogSize ELSE 3)
     /\ \A i \in 1..Len(recommendations) : Len(recommendations[i].plan.weeks) = 4

\* C4: every emitted plan has exactly 4 weeks whose week numbers form the set {1,2,3,4}.
C4_WeekNumbersFormTheSet ==
  \A i \in 1..Len(recommendations) :
    LET weeks == recommendations[i].plan.weeks
    IN  Len(weeks) = 4 /\ {weeks[j].week : j \in 1..Len(weeks)} = {1, 2, 3, 4}

\* C5: the fallback is never used right after a standard attempt whose answer
\* failed to parse or failed the schema: a strict attempt comes first.
C5_SchemaFailureEscalatesToStrict ==
  (settledByFallback /\ calls[Len(calls)].purpose = "standard")
    => calls[Len(calls)].result \notin {"unparsable", "invalid"}

\* C6: a backend failure on the standard attempt is followed by the strict attempt
\* (never directly by the fallback), and a backend failure never ends the request
\* with an error response.
C6_BackendFailureHandledLikeValidationFailure ==
  /\ (settledByFallback /\ calls[Len(calls)].purpose = "standard")
       => calls[Len(calls)].result # "error"
  /\ (pc = "done" /\ Len(planCalls) > 0 /\ calls[Len(calls)].result = "error" /\ ~storeFailed)
       => status = 200

degradedOnlyInWhy(i) ==
  /\ i <= Len(recommendations)
  /\ recommendations[i].why = explanationFallback(topRoles[i].overlap, topRoles[i].gaps)
  /\ recommendations[i].roleId = topRoles[i].role.roleId
  /\ recommendations[i].fitScore = topRoles[i].score
  /\ recommendations[i].overlapSkills = topRoles[i].overlap
  /\ recommendations[i].gapSkills = topRoles[i].gaps
  /\ PlanSchema(recommendations[i].plan)

\* C8: a role whose explanation call failed is still emitted, degraded only in
\* its why, and the request that had such a role is answered with the
\* recommendation set.
C8_ExplanationFailureKeepsTheSet ==
  variant = "express" =>
    /\ \A i \in 1..Len(paths) : paths[i].explain = "error" => degradedOnlyInWhy(i)
    /\ (pc = "done" /\ ~storeFailed /\ \E i \in 1..Len(paths) : paths[i].explain = "error") =>
         status = 200 /\ Len(recommendations) = Len(topRoles)

\* What does hold: the role is emitted, degraded only in its why and valid as an
\* item of the response; when the request is answered with an error, the cause
\* is the number of recommendations or the item of another role.
ExplanationFailureIsLocal ==
  variant = "express" =>
    /\ \A i \in 1..Len(paths) : paths[i].explain = "error" =>
         degradedOnlyInWhy(i) /\ RecommendationItemSchema(recommendations[i])
    /\ (pc = "done" /\ Len(paths) > 0 /\ status # 200) =>
         \/ storeFailed
         \/ Len(recommendations) # 3
         \/ \E j \in 1..Len(paths) :
              paths[j].explain # "error" /\ ~RecommendationItemSchema(recommendations[j])

\* a success whose roles had: a failed explanation with a plan accepted from the
\* backend, and a failed explanation with a fallback plan
ExplanationFailureSurvived ==
  /\ variant = "express" /\ pc = "done" /\ status = 200
  /\ \E i, j \in 1..Len(paths) :
       /\ paths[i].explain = "error" /\ paths[i].plan = "standard"
       /\ paths[j].explain = "error" /\ paths[j].plan = "fallback"

\* C9: the fallback generators return a plan that passes PlanSchema for every
\* role title and every gapSkills.
C9_FallbackAlwaysSchemaValid ==
  fn \in {"deterministicPlanForRole", "deterministicFallbackPlan"} => PlanSchema(ret)

\* ranked(out, scores): `out` lists indices of `scores`, the first min(3, n) in
\* descending score where equal scores keep their index order
ranked(out, scores) ==
  /\ Len(out) = (IF Len(scores) < 3 THEN Len(scores) ELSE 3)
  /\ \A a \in 1..Len(out) : out[a] \in 1..Len(scores)
  /\ \A a, b \in 1..Len(out) : a < b =>
       \/ scores[out[a]] > scores[out[b]]
       \/ scores[out[a]] = scores[out[b]] /\ out[a] < out[b]
  /\ \A k \in (1..Len(scores)) \ {out[a] : a \in 1..Len(out)} : \A a \in 1..Len(out) :
       \/ scores[k] < scores[out[a]]
       \/ scores[k] = scores[out[a]] /\ k > out[a]

indexOfRole(roleId) == CHOOSE k \in 1..Len(catalog) : catalog[k].roleId = roleId
indexOfTitle(title) == CHOOSE k \in 1..Len(DeterministicRoles) : DeterministicRoles[k].title = title

catalogScores == [k \in 1..Len(catalog) |-> scoreRole(profile, catalog[k]).score]
deterministicScores ==
  [k \in 1..Len(DeterministicRoles) |-> calculateFitScore(profile.skills, DeterministicRoles[k].skills)]

\* C10: the ranker returns the first 3 roles in descending score, equal scores in
\* catalog order, each with the score computed for it; the recommendations of
\* the response follow that order.
C10_Top3StableDescending ==
  /\ (variant = "express" /\ Len(topRoles) > 0) =>
       /\ ranked([a \in 1..Len(topRoles) |-> indexOfRole(topRoles[a].role.roleId)], catalogScores)
       /\ \A a \in 1..Len(topRoles) :
            topRoles[a].score = catalogScores[indexOfRole(topRoles[a].role.roleId)]
       /\ \A i \in 1..Len(recommendations) :
            /\ recommendations[i].roleId = topRoles[i].role.roleId
            /\ recommendations[i].fitScore = topRoles[i].score
       /\ status = 200 => Len(recommendations) = Len(topRoles)
  /\ (variant = "functions" /\ Len(paths) > 0 /\ paths[1].plan = "fallback") =>
       /\ ranked([a \in 1..Len(recommendations) |-> indexOfTitle(recommendations[a].title)],
                 deterministicScores)
       /\ \A a \in 1..Len(recommendations) :
            recommendations[a].fitScore = deterministicScores[indexOfTitle(recommendations[a].title)]

\* a success on a 4-role catalog where the role left out ties with a returned
\* role, and where the ranking differs from the catalog order
C10_Witness ==
  /\ variant = "express" /\ pc = "done" /\ status = 200 /\ Len(catalog) = 4
  /\ \E k \in 1..Len(catalog) :
       /\ \A a \in 1..3 : topRoles[a].role.roleId # catalog[k].roleId
       /\ \E a \in 1..3 : topRoles[a].score = catalogScores[k]
  /\ topRoles[1].role.roleId # catalog[1].roleId

\* what the request in progress was answered, compared with the previous answer
sameRanking ==
  /\ [i \in 1..Len(recommendations) |-> recommendations[i].roleId] = previous.roleIds
  /\ [i \in 1..Len(recommendations) |-> recommendations[i].fitScore] = previous.fitScores

sameFallback ==
  LET k == previous.role
  IN  /\ (planByFallback(k) /\ previous.fallbackPlan # <<>>) =>
           previous.fallbackPlan = <<recommendations[k].plan>>
      /\ (whyByTemplate(k) /\ previous.fallbackWhy # <<>>) =>
           previous.fallbackWhy = <<recommendations[k].why>>

\* C11: two requests with the same profile on the same catalog, both answered
\* with recommendations, carry the same roleIds and the same fitScores in the
\* same order whatever the backend answered; and what the fallback path built
\* for a role in both (plan, templated why) is identical.
C11_SameProfileSameRanking ==
  (pc = "done" /\ status = 200 /\ previous.run = 1) => sameRanking /\ sameFallback

\* What does hold: the express handler ranks and scores without the backend,
\* and the fallback path is deterministic in both variants.
RankingIsDeterministicInExpress ==
  (pc = "done" /\ status = 200 /\ previous.run = 1) =>
     /\ variant = "express" => sameRanking
     /\ sameFallback

\* two answered requests of the express handler that took different paths for a role
RankedTwiceInExpress ==
  /\ variant = "express" /\ pc = "done" /\ status = 200 /\ previous.run = 1
  /\ previous.fallbackPlan # <<>> /\ ~planByFallback(previous.role)

C13_WorkedExample ==
  (/\ fn = "calculateTop3Roles"
   /\ args.skills = <<<<"J","a","v","a","S","c","r","i","p","t">>, <<"H","T","M","L">>, <<"C","S","S">>>>
   /\ args.role = FrontendDeveloper)
  => /\ 5 * ret.overlapRatio.num = 3 * ret.overlapRatio.den
     /\ ret.cosine.dot > 0 /\ ret.cosine.dot * ret.cosine.dot = ret.cosine.sq
     /\ ret.scored.score = 84
     /\ ret.scored.overlap = <<<<"J","a","v","a","S","c","r","i","p","t">>, <<"H","T","M","L">>, <<"C","S","S">>>>
     /\ ret.scored.gaps = <<<<"R","e","a","c","t">>, <<"T","y","p","e","S","c","r","i","p","t">>>>

\* What the code computes on that input: JavaScript becomes "js" and no longer
\* matches the role's JavaScript; overlapRatio 2/5, cosine 4/sqrt(60), fitScore 47
WorkedExampleAsComputed ==
  (/\ fn = "calculateTop3Roles"
   /\ args.skills = <<<<"J","a","v","a","S","c","r","i","p","t">>, <<"H","T","M","L">>, <<"C","S","S">>>>
   /\ args.role = FrontendDeveloper)
  => /\ ret.profile.skills = <<<<"j","s">>, <<"h","t","m","l">>, <<"c","s","s">>>>
     /\ ret.overlapRatio = [num |-> 2, den |-> 5]
     /\ ret.cosine = [dot |-> 4, sq |-> 60]
     /\ ret.scored.score = 47
     /\ ret.scored.overlap = <<<<"H","T","M","L">>, <<"C","S","S">>>>
     /\ ret.scored.gaps = <<<<"J","a","v","a","S","c","r","i","p","t">>, <<"R","e","a","c","t">>, <<"T","y","p","e","S","c","r","i","p","t">>>>

\* the title finds no key of baseTopics, neither by the key lookup nor by the
\* keyword lookup
matchesNoKey(roleTitle) == roleKeyOf(roleTitle) = <<>>

genericWeek(w, n) ==
  /\ w.week = n
  /\ w.topics = <<<<"C","o","r","e"," ","c","o","n","c","e","p","t"," ">> \o NumToString(n)>>
  /\ w.practice = <<<<"H","a","n","d","s","-","o","n"," ","p","r","a","c","t","i","c","e"," ">> \o NumToString(n)>>

capstoneProject(plan) == includes(toLowerCase(plan.weeks[4].project), <<"c","a","p","s","t","o","n","e">>)

\* C14 as stated: for a title that matches no key, each week N in 1..4 has the
\* topic "Core concept N" and the practice item "Hands-on practice N", and the
\* project of week 4 contains "capstone".
C14_GenericTemplateAllWeeks ==
  (fn = "deterministicPlanForRole" /\ matchesNoKey(args.roleTitle)) =>
     /\ Len(ret.weeks) = 4
     /\ \A n \in 1..4 : genericWeek(ret.weeks[n], n)
     /\ capstoneProject(ret)

\* C14 as amended: for a title that matches no key, weeks 1..3 have the topic
\* "Core concept N" and the practice item "Hands-on practice N"; week 4 has the
\* topic "Capstone project" and the practice item "Final deliverable", and its
\* project, "Capstone project for <title>", contains "capstone".
C14_GenericTemplate ==
  (fn = "deterministicPlanForRole" /\ matchesNoKey(args.roleTitle)) =>
     /\ Len(ret.weeks) = 4
     /\ \A n \in 1..3 : genericWeek(ret.weeks[n], n)
     /\ ret.weeks[4].week = 4
     /\ ret.weeks[4].topics = <<<<"C","a","p","s","t","o","n","e"," ","p","r","o","j","e","c","t">>>>
     /\ ret.weeks[4].practice = <<<<"F","i","n","a","l"," ","d","e","l","i","v","e","r","a","b","l","e">>>>
     /\ ret.weeks[4].project = <<"C","a","p","s","t","o","n","e"," ","p","r","o","j","e","c","t"," ","f","o","r"," ">> \o args.roleTitle
     /\ capstoneProject(ret)

\* deterministicPlanForRole was called for "Unknown Exotic Role" and used the
\* generic template
C14_Witness ==
  /\ fn = "deterministicPlanForRole"
  /\ args.roleTitle = <<"U","n","k","n","o","w","n"," ","E","x","o","t","i","c"," ","R","o","l","e">>
  /\ matchesNoKey(args.roleTitle)
  /\ genericWeek(ret.weeks[1], 1)

\* C15: every plan of the fallback generators has exactly 4 weeks numbered
\* 1,2,3,4 in that order, each with exactly one topic, exactly one practice
\* item, a non-empty assessment and a non-empty project, and the project of
\* week 4 contains "capstone".
C15_FallbackPlanShape ==
  fn \in {"deterministicPlanForRole", "deterministicFallbackPlan"} =>
     /\ Len(ret.weeks) = 4
     /\ \A n \in 1..4 :
          /\ ret.weeks[n].week = n
          /\ Len(ret.weeks[n].topics) = 1
          /\ Len(ret.weeks[n].practice) = 1
          /\ Len(ret.weeks[n].assessment) > 0
          /\ Len(ret.weeks[n].project) > 0
     /\ capstoneProject(ret)

\* What does hold: that shape for deterministicPlanForRole, and for
\* deterministicFallbackPlan the same with two topics and two practice items
FallbackPlanShapeAsBuilt ==
  fn \in {"deterministicPlanForRole", "deterministicFallbackPlan"} =>
     /\ Len(ret.weeks) = 4
     /\ \A n \in 1..4 :
          /\ ret.weeks[n].week = n
          /\ Len(ret.weeks[n].topics) = (IF fn = "deterministicPlanForRole" THEN 1 ELSE 2)
          /\ Len(ret.weeks[n].practice) = (IF fn = "deterministicPlanForRole" THEN 1 ELSE 2)
          /\ Len(ret.weeks[n].assessment) > 0
          /\ Len(ret.weeks[n].project) > 0
     /\ capstoneProject(ret)

\* s - 1/2 <= 60 c + 40 o, for c = dot / sqrt(sq) and o = num / den
atLeastHalfBelow(s, c, o) ==
  LET A == (2 * s - 1) * o.den - 80 * o.num
      B == 120 * o.den * c.dot
  IN  A <= 0 \/ A * A * c.sq <= B * B

\* s = round(100 * (0.6 c + 0.4 o)), halves rounded up, within 0..100
isRounded(s, c, o) ==
  /\ s \in 0..100
  /\ atLeastHalfBelow(s, c, o)
  /\ ~atLeastHalfBelow(s + 1, c, o)

\* the cosine and the overlap ratio of two sets of names with weights 1
cosineOfSets(U, R) ==
  IF U = {} \/ R = {} THEN [dot |-> 0, sq |-> 1]
  ELSE [dot |-> Cardinality(U \cap R), sq |-> Cardinality(U) * Cardinality(R)]

ratioOfSets(U, R) ==
  IF R = {} THEN [num |-> 0, den |-> 1]
  ELSE [num |-> Cardinality(U \cap R), den |-> Cardinality(R)]

namesOf(skills) == {trim(toLowerCase(s)) : s \in Range(skills)}
roleNamesOf(role) == {trim(toLowerCase(role.skills[i].name)) : i \in 1..Len(role.skills)}

\* C16: the fit score is round(100 * (0.6 cosine + 0.4 overlapRatio)) within
\* 0..100: for cosine k/8 and overlap j/8 the score s of formatFitScore has
\* s - 1/2 <= (60 k + 40 j) / 8 < s + 1/2; score(1, 1) = 100, score(0, 0) = 0.
C16_FitScoreFormula ==
  fn = "formatFitScore" =>
    LET k == args.cosineValue.dot
        j == args.overlap.num
    IN  /\ ret \in 0..100
        /\ 2 * Eighths * ret - Eighths <= 2 * (60 * k + 40 * j)
        /\ 2 * (60 * k + 40 * j) < 2 * Eighths * ret + Eighths
        /\ (k = Eighths /\ j = Eighths) => ret = 100
        /\ (k = 0 /\ j = 0) => ret = 0

\* what formatFitScore does keep: the score is a whole number of 0..100 no
\* further than 1/2 from 100 * (0.6 cosine + 0.4 overlapRatio), ends included
FitScoreWithinHalf ==
  fn = "formatFitScore" =>
    LET k == args.cosineValue.dot
        j == args.overlap.num
    IN  /\ ret \in 0..100
        /\ 2 * Eighths * ret - Eighths <= 2 * (60 * k + 40 * j)
        /\ 2 * (60 * k + 40 * j) <= 2 * Eighths * ret + Eighths
        /\ (k = Eighths /\ j = Eighths) => ret = 100
        /\ (k = 0 /\ j = 0) => ret = 0

\* in exact arithmetic the scores of calculateTop3Roles and calculateFitScore
\* are the rounded formula, with the same weights
ExactFitScoreFormula ==
  /\ fn = "calculateTop3Roles" =>
       isRounded(ret.scored.score, ret.cosine, ret.overlapRatio)
  /\ fn = "calculateFitScore" =>
       LET U == namesOf(args.userSkills)
           R == namesOf(args.roleSkills)
       IN  isRounded(ret, cosineOfSets(U, R), ratioOfSets(U, R))

\* for the profiles and roles tried, the score in exact arithmetic is the
\* score the Numbers give
ExactScoresAgree ==
  fn = "calculateTop3Roles" =>
    ret.scored.score =
      formatFitScore64(cosine64(buildUserVector(ret.profile.skills), buildRoleVector(args.role)),
                       div64(num64(ret.overlapRatio.num), num64(ret.overlapRatio.den)))

\* C17: formatFitScore(0.5, 0.5) = 60, formatFitScore(1, 1) = 100 and
\* formatFitScore(0, 0) = 0.
C17_HalfAndHalfGivesSixty ==
  fn = "formatFitScore" =>
    LET c == args.cosineValue
        o == args.overlap
    IN  /\ (2 * c.dot = Eighths /\ 2 * o.num = Eighths) => ret = 60
        /\ (c.dot = Eighths /\ o.num = Eighths) => ret = 100
        /\ (c.dot = 0 /\ o.num = 0) => ret = 0

roleSkillsIn(role, names, wanted) ==
  LET all == [i \in 1..Len(role.skills) |-> role.skills[i].name]
  IN  SelectSeq(all, LAMBDA n : (toLowerCase(n) \in names) = wanted)

\* C19: for the skill list sanitizeProfile hands to the scorer, overlap is the
\* role's skills in catalog order whose name the user has, compared without
\* case, gaps is the rest, the two are disjoint and together hold every role
\* skill once; a skill the user entered under the name the role declares is in
\* overlap and not in gaps.
C19_EnteredSkillIsInOverlap ==
  fn = "calculateTop3Roles" =>
    LET role == args.role
        has == {toLowerCase(s) : s \in Range(ret.profile.skills)}
        entered == namesOf(args.skills)
        overlap == ret.scored.overlap
        gaps == ret.scored.gaps
    IN  /\ overlap = slice(roleSkillsIn(role, has, TRUE), 20)
        /\ gaps = slice(roleSkillsIn(role, has, FALSE), 20)
        /\ Len(role.skills) <= 20 =>
             /\ Len(overlap) + Len(gaps) = Len(role.skills)
             /\ \A i \in 1..Len(role.skills) :
                  (role.skills[i].name \in Range(overlap)) # (role.skills[i].name \in Range(gaps))
        /\ \A i \in 1..Len(role.skills) :
             toLowerCase(role.skills[i].name) \in entered =>
               /\ role.skills[i].name \in Range(overlap)
               /\ role.skills[i].name \notin Range(gaps)

\* the position of the first input entry that normalizes to x
firstSeen(skills, x) ==
  LET m == [i \in 1..Len(skills) |-> synonyms(trim(toLowerCase(skills[i])))]
  IN  IF \E k \in 1..Len(m) : m[k] = x
      THEN CHOOSE k \in 1..Len(m) : m[k] = x /\ \A h \in 1..(k - 1) : m[h] # x
      ELSE 0

\* C20: normalizeSkills returns lower-cased trimmed entries, none twice, in the
\* order of their first occurrence in the input, at most 50 of them, none for
\* an empty input, and never both of two names the synonym table relates.
C20_NormalizedSkills ==
  fn = "normalizeSkills" =>
    /\ \A i \in 1..Len(ret) : ret[i] = trim(toLowerCase(ret[i]))
    /\ \A i, j \in 1..Len(ret) : i # j => ret[i] # ret[j]
    /\ \A i, j \in 1..Len(ret) :
         i < j => /\ firstSeen(args.skills, ret[i]) > 0
                  /\ firstSeen(args.skills, ret[i]) < firstSeen(args.skills, ret[j])
    /\ Len(ret) <= 50
    /\ Len(args.skills) = 0 => Len(ret) = 0
    /\ \A i, j \in 1..Len(ret) : i # j => synonyms(ret[i]) # ret[j]

\* what normalizeSkills does keep: everything of C20 but the last line
NormalizedSkillsAsBuilt ==
  fn = "normalizeSkills" =>
    /\ \A i \in 1..Len(ret) : ret[i] = trim(toLowerCase(ret[i]))
    /\ \A i, j \in 1..Len(ret) : i # j => ret[i] # ret[j]
    /\ \A i, j \in 1..Len(ret) :
         i < j => firstSeen(args.skills, ret[i]) < firstSeen(args.skills, ret[j])
    /\ Len(ret) <= 50
    /\ Len(args.skills) = 0 => Len(ret) = 0

\* C21: PlanSchema, validateLearningPlan and validatePlan accept a plan only
\* if it has exactly 4 weeks: plans of 0, 1, 2, 3, 5 or more weeks are
\* rejected, and the plan of createTestPlan is accepted by all three.
C21_ExactlyFourWeeks ==
  fn = "validatePlan" =>
    /\ Len(args.plan.weeks) # 4 =>
         ~ret.PlanSchema /\ ~ret.validateLearningPlan /\ ~ret.validatePlan
    /\ args.plan = createTestPlan.recommendations[1].plan =>
         ret.PlanSchema /\ ret.validateLearningPlan /\ ret.validatePlan

\* a plan of five well-formed weeks was rejected
C21_Witness ==
  /\ fn = "validatePlan"
  /\ Len(args.plan.weeks) = 5
  /\ \A i \in 1..5 : validateWeek(args.plan.weeks[i]) /\ WeekSchema(args.plan.weeks[i])
  /\ ~ret.PlanSchema /\ ~ret.validatePlan

\* a week as the plan format wants it
wellFormedWeek(w) ==
  /\ Len(w.topics) \in 1..10
  /\ Len(w.practice) \in 1..8
  /\ \A i \in 1..Len(w.topics) : Len(trim(w.topics[i])) > 0
  /\ \A i \in 1..Len(w.practice) : Len(trim(w.practice[i])) > 0
  /\ Len(trim(w.assessment)) > 0
  /\ Len(trim(w.project)) > 0

\* C22: WeekSchema and validateWeek accept a week only if it has 1..10 topics
\* and 1..8 practice items, each non-empty after trimming, and an assessment
\* and a project non-empty after trimming.
C22_WeekAcceptedOnlyIfWellFormed ==
  fn = "validateWeek" =>
    /\ ret.WeekSchema => wellFormedWeek(args.week)
    /\ ret.validateWeek => wellFormedWeek(args.week)

\* what the two validators do guarantee: the counts in WeekSchema, the
\* non-empty entries in validateWeek
WeekValidatorsAsBuilt ==
  fn = "validateWeek" =>
    /\ ret.WeekSchema => Len(args.week.topics) \in 1..10 /\ Len(args.week.practice) \in 1..8
    /\ ret.validateWeek =>
         /\ Len(args.week.topics) >= 1 /\ Len(args.week.practice) >= 1
         /\ \A i \in 1..Len(args.week.topics) : Len(trim(args.week.topics[i])) > 0
         /\ \A i \in 1..Len(args.week.practice) : Len(trim(args.week.practice[i])) > 0
         /\ Len(trim(args.week.assessment)) > 0 /\ Len(trim(args.week.project)) > 0

\* a full recommendation as the response format wants it
acceptableRecommendation(rec) ==
  /\ rec.fitScore >= 0 /\ rec.fitScore <= 100
  /\ Len(rec.title) > 0
  /\ Len(rec.why) >= 10 /\ Len(rec.why) <= 600
  /\ Len(rec.overlapSkills) <= 20 /\ Len(rec.gapSkills) <= 20
  /\ PlanSchema(rec.plan)

\* C23: validateRecommendation and RecommendationItemSchema accept a
\* recommendation exactly when fitScore is within [0,100] (0 included), title
\* is non-empty, why has 10..600 characters, overlapSkills and gapSkills have
\* at most 20 entries and the plan is schema-valid; attemptParseResponse lets
\* every such recommendation through.
C23_RecommendationAcceptedExactlyWhenValid ==
  fn = "validateRecommendation" =>
    /\ ret.validateRecommendation = acceptableRecommendation(args.rec)
    /\ ret.RecommendationItemSchema = acceptableRecommendation(args.rec)
    /\ acceptableRecommendation(args.rec) => ret.attemptParseResponse

\* RecommendationItemSchema alone does accept exactly these
RecommendationItemSchemaAsBuilt ==
  fn = "validateRecommendation" =>
    ret.RecommendationItemSchema = acceptableRecommendation(args.rec)

one64 == num64(1)

\* 2^-50
tiny64 == [m |-> bigShl(<<1>>, 52), e |-> 0 - 102]

\* the two vectors share no key
disjointKeys(a, b) == DOMAIN a \cap DOMAIN b = {}

\* C24: cosine(a, b) is 0 when a or b has no magnitude (cosine({}, {})
\* included) and when a and b share no key, 1 for a non-zero vector and
\* itself, and within [0, 1] for non-negative weights.
C24_CosineDegeneracy ==
  fn = "cosine" =>
    /\ (DOMAIN args.a = {} \/ DOMAIN args.b = {}) => ret = zero64
    /\ disjointKeys(args.a, args.b) => ret = zero64
    /\ (args.a = args.b /\ DOMAIN args.a # {}) => ret = one64
    /\ leq64(zero64, ret) /\ leq64(ret, one64)

\* what cosine does keep: 0 without magnitude or shared keys, and a value of
\* a non-zero vector with itself within 2^-50 of 1
CosineAsComputed ==
  fn = "cosine" =>
    /\ (DOMAIN args.a = {} \/ DOMAIN args.b = {}) => ret = zero64
    /\ disjointKeys(args.a, args.b) => ret = zero64
    /\ (args.a = args.b /\ DOMAIN args.a # {}) =>
         /\ leq64(ret, add64(one64, tiny64))
         /\ leq64(one64, add64(ret, tiny64))

\* C30: normalizeSkills(normalizeSkills(s)) = normalizeSkills(s), and a
\* sanitized profile that is sanitized and scored again gets the same skill
\* vector, overlap and gap lists and fit score.
C30_NormalizeSkillsIdempotent ==
  /\ fn = "normalizeSkills" => normalizeSkills(ret) = ret
  /\ fn = "calculateTop3Roles" =>
       LET again == sanitizeProfile(ret.profile)
       IN  /\ buildUserVector(again.skills) = buildUserVector(ret.profile.skills)
           /\ scoreRole(again, args.role) = ret.scored

\* normalizing three times is normalizing once, for lists of at most 50
\* skills: the synonym table swaps each pair of names back
NormalizeSkillsThrice ==
  (fn = "normalizeSkills" /\ Len(args.skills) <= 50) =>
    normalizeSkills(normalizeSkills(ret)) = ret

\* C28: withRetry(operation, maxRetries) with maxRetries >= 1 invokes the
\* operation at most maxRetries times, stops at the first invocation that
\* succeeds and returns its result, waits between attempts but not after the
\* last one, and rejects with the last error when all maxRetries fail.
C28_WithRetry ==
  (fn = "withRetry" /\ args.maxRetries >= 1) =>
    LET n == Len(ret.invocations)
        failed(i) == ~ret.invocations[i].ok
    IN  /\ n <= args.maxRetries
        /\ \A i \in 1..(n - 1) : failed(i)
        /\ (n > 0 /\ ~failed(n)) => ret.pc = "resolved"
        /\ ret.pc = "resolved" => n > 0 /\ ~failed(n) /\ ret.result = ret.invocations[n]
        /\ ret.pc = "rejected" =>
             /\ n = args.maxRetries /\ failed(n)
             /\ ret.result = ret.invocations[n]
        /\ Len(ret.waits) = (IF ret.pc = "loop" THEN n ELSE n - 1)
        /\ Len(ret.waits) <= args.maxRetries - 1
        /\ \A i \in 1..Len(ret.waits) : ret.waits[i] = RETRY_DELAY * 2^(i - 1)

\* all of three invocations failed and the call rejected after two waits
C28_Witness ==
  /\ fn = "withRetry" /\ args.maxRetries = 3
  /\ ret.pc = "rejected" /\ Len(ret.invocations) = 3 /\ Len(ret.waits) = 2
  /\ ret.result.value = "quota"

\* C29: in POST /api/recommend nothing is written to Firestore unless the
\* response passed RecommendationResponseSchema; a request answered with an
\* error leaves the stored profile and recommendation as they were; on
\* success the two are written together and the stored recommendation is the
\* set returned to the caller.
C29_StoredOnlyWhatIsReturned ==
  variant = "express" =>
    /\ pc # "done" => stored = {} /\ written = NoDocument
    /\ stored # {} => RecommendationResponseSchema(recommendations)
    /\ (pc = "done" /\ status # 200) =>
         /\ "profile" \notin stored /\ "recommendation" \notin stored
         /\ written = NoDocument
    /\ ("profile" \in stored) <=> ("recommendation" \in stored)
    /\ (pc = "done" /\ status = 200) =>
         /\ {"profile", "recommendation"} \subseteq stored
         /\ written.top3Recommendations = recommendations
         /\ written.inputProfileSnapshot = profile

\* a request was answered with three recommendations, which are stored
C29_Witness ==
  /\ variant = "express" /\ pc = "done" /\ status = 200
  /\ Len(recommendations) = 3
  /\ written.top3Recommendations = recommendations
  /\ "recommendation" \in stored

\* the recommendation emitted for the j-th selected role is that role's: its
\* id, fit score and skills come from the ranking, its plan is schema-valid
ownRecommendation(j) ==
  /\ recommendations[j].roleId = topRoles[j].role.roleId
  /\ recommendations[j].fitScore = topRoles[j].score
  /\ recommendations[j].overlapSkills = topRoles[j].overlap
  /\ recommendations[j].gapSkills = topRoles[j].gaps
  /\ PlanSchema(recommendations[j].plan)

\* every selected role has been processed
allRolesProcessed == pc = "done" /\ Len(paths) > 0

\* C26: whatever the backend answered while another role was processed, no
\* role's recommendation is removed or changed, and the set of three roles is
\* not turned into an error response.
C26_RolesAreIsolated ==
  variant = "express" =>
    /\ \A j \in 1..Len(recommendations) : ownRecommendation(j)
    /\ allRolesProcessed => Len(recommendations) = Len(topRoles)
    /\ (allRolesProcessed /\ Len(topRoles) = 3 /\ ~storeFailed) => status = 200

\* what the handler does keep: no recommendation is removed or changed
RecommendationsAreOwn ==
  variant = "express" =>
    /\ \A j \in 1..Len(recommendations) : ownRecommendation(j)
    /\ allRolesProcessed => Len(recommendations) = Len(topRoles)

\* C27: every backend call has its own timeout, so that recommend responds in
\* the end even when the backend leaves calls unanswered.
C27_RecommendEventuallyResponds == <>(pc = "done")

\* every step of a request changes its position
EveryStepMovesOn == [][position' # position]_vars

\* the handler of index.js, whose geminiCall aborts the fetch after 15 s,
\* responds in the end
ExpressEventuallyResponds == (variant = "express") => <>(pc = "done")

\* what is left of the user in Firestore: profile, recommendation and
\* analytics documents, and share tokens that resolve to a recommendation
leftOf(uid) ==
  ofUser(ret.profile, uid) \cup ofUser(ret.recommendations, uid)
    \cup ofUser(ret.analytics, uid)
    \cup {t \in ofUser(ret.shareTokens, uid) : resolves(t, ret.recommendations)}

\* C25: once delete_user_data has answered success, nothing of the user is
\* left in Firestore, also when a recommend or share request of the user was
\* in flight while the delete ran (writes made after the answer set aside).
C25_NothingLeftAfterDelete ==
  (fn = "delete_user_data" /\ ret.del = "success" /\ ~ret.late) => leftOf(args.uid) = {}

\* with no other request of the user in flight, a delete that answered
\* success has left nothing of the user
DeleteAloneLeavesNothing ==
  (fn = "delete_user_data" /\ ret.del = "success" /\ ~args.recommend /\ ~args.share)
    => leftOf(args.uid) = {}

\* a delete that answered success has removed every document it read, and
\* no document of another user
DeleteRemovesWhatItRead ==
  [][(fn = "delete_user_data" /\ ret.del = "committing" /\ ret'.del = "success")
       => /\ ret'.profile = ret.profile \ ret.snapshot.profile
          /\ ret'.recommendations = ret.recommendations \ ret.snapshot.recommendations
          /\ ret'.analytics = ret.analytics \ ret.snapshot.analytics
          /\ ofUser(ret'.analytics, "u2") = ofUser(ret.analytics, "u2")
          /\ ret'.shareTokens = ret.shareTokens]_vars

-----------------------------------------------------------------------------
Next ==
  \/ VerifyAuth \/ RecommendBegin \/ Explain \/ PlanStandard \/ PlanRetry
  \/ HandleRecommendations \/ AIStandard \/ AIStrict

Spec == Init /\ [][Next]_vars


NextTwice == Next \/ Again

\* requests that can be answered with recommendations at all
InitTwice ==
  /\ Init
  /\ token = "valid"
  /\ variant = "express" => apiKey /\ Len(catalog) = 3

SpecTwice == InitTwice /\ [][NextTwice]_vars

NextUnit ==
  \/ CallDeterministicPlanForRole \/ CallDeterministicFallbackPlan
  \/ CallCalculateTop3Roles \/ CallFormatFitScore \/ CallCalculateFitScore
  \/ CallOverlapRatio \/ CallNormalizeSkills \/ CallCosine
  \/ CallPlanValidators \/ CallWeekValidators \/ CallRecommendationValidators

SpecUnit == InitUnit /\ [][NextUnit]_vars

\* a backend that may leave a call unanswered
NextLive == Next \/ GenerateContentPending

Positions == {"start", "handler", "explain", "plan", "retry", "ai_standard",
              "ai_strict", "pending", "done"}

\* a request that is neither answered nor waiting for a promise that never
\* settles runs on: Node runs every continuation that is ready and fires
\* every timer.  Every step of NextLive moves the position
\* (EveryStepMovesOn), and one is possible wherever the request is not
\* settled, so this is the step WF_vars(NextLive) asks for
RunsOn ==
  /\ pc \notin {"done", "pending"}
  /\ pc' \in Positions /\ idx' \in 0..4 /\ attempt' \in 0..4

SpecLive == Init /\ [][NextLive]_vars /\ WF_position(RunsOn)
====
